---- MODULE Spec2Model ----
(***************************************************************************)
(* The authentication boundary of the fitness-app backend: the dual write  *)
(* between the identity provider (Cognito) and the local relational store. *)
(* Two generations of the service live in the repository:                  *)
(*   "backend" : backend/app  (async SQLModel session, handlers in         *)
(*               backend/app/api/v1/auth.py and onboarding.py)             *)
(*   "src"     : src/         (UserRepository, handlers in src/api/auth.py)*)
(* A behaviour is a run of one of the two deployments (variable app)       *)
(* against the provider; every action is one whole HTTP request.           *)
(* Strings are tuples of one-character strings, so that lower(), split()   *)
(* and the validators are computed and not assumed.  An optional value is  *)
(* a sequence of length at most one: None is << >>, Some(v) is << v >>.    *)
(***************************************************************************)
EXTENDS Integers, Sequences, FiniteSets, TLC

VARIABLES
    app,         \* which deployment runs: "backend" or "src"
    client_secret, \* COGNITO_CLIENT_SECRET of the deployment: None when not configured
    idp,         \* the provider's user pool: set of identities
    users,       \* backend table users
    profiles,    \* backend table user_profiles
    repo_users,  \* src table users (UserRepository)
    now,         \* the clock datetime.utcnow() reads
    registered,  \* history: the emails whose registration request was answered with success
    last,        \* the request in progress and its response; Idle between requests
    inflight     \* the requests served concurrently, each with its position in its handler

vars == <<app, client_secret, idp, users, profiles, repo_users, now, registered, last,
         inflight>>

----------------------------------------------------------------------------
(* Bounds of the model *)

MaxIdentities == 2   \* identities the provider's pool may hold
MaxTime == 2         \* clock readings taken by last_login updates
MaxRequests == 2     \* requests served concurrently

----------------------------------------------------------------------------
(* Optional values and strings *)

None == << >>
Some(v) == << v >>
IsNone(o) == Len(o) = 0
Truthy(o) == Len(o) = 1 /\ Len(o[1]) > 0     \* python: `if first_name:`

UpperLetters == <<"A", "B", "O", "V", "L", "I", "D", "U">>
LowerLetters == <<"a", "b", "o", "v", "l", "i", "d", "u">>
OtherLower == {"m", "y", "s", "h", "r", "t", "x", "e", "z", "c", "n"}
Digits == {"1", "2", "3", "4"}
\* the punctuation set of validate_password
SpecialChars ==
    {"!", "@", "#", "$", "%", "^", "&", "*", "(", ")", "_", "+", "-", "=",
     "[", "]", "{", "}", "|", ";", ":", ",", ".", "<", ">", "?"}

isupper(c) == \E i \in 1..Len(UpperLetters) : UpperLetters[i] = c
islower(c) == (\E i \in 1..Len(LowerLetters) : LowerLetters[i] = c) \/ c \in OtherLower
isdigit(c) == c \in Digits
isalnumChar(c) == isupper(c) \/ islower(c) \/ isdigit(c)

lowerChar(c) ==
    IF isupper(c)
    THEN LowerLetters[CHOOSE i \in 1..Len(UpperLetters) : UpperLetters[i] = c]
    ELSE c

(* str.lower() *)
lower(s) == [i \in 1..Len(s) |-> lowerChar(s[i])]

(* str.replace(c, '') *)
RECURSIVE remove(_, _)
remove(s, c) ==
    IF s = << >> THEN << >>
    ELSE IF Head(s) = c THEN remove(Tail(s), c)
    ELSE <<Head(s)>> \o remove(Tail(s), c)

(* str.isalnum(): non-empty and every character alphanumeric *)
isalnum(s) == Len(s) > 0 /\ \A i \in 1..Len(s) : isalnumChar(s[i])

(* email.split('@')[0] *)
RECURSIVE localPart(_)
localPart(s) ==
    IF s = << >> THEN << >>
    ELSE IF Head(s) = "@" THEN << >>
    ELSE <<Head(s)>> \o localPart(Tail(s))

----------------------------------------------------------------------------
(* Request models: pydantic validation at the HTTP boundary *)

PasswordMinLength == 8
PasswordMaxLength == 128
UsernameMinLength == 3
UsernameMaxLength == 50

(* validate_password without the special-character check *)
validate_password_no_symbol(v) ==
    /\ Len(v) >= PasswordMinLength
    /\ Len(v) <= PasswordMaxLength
    /\ \E i \in 1..Len(v) : isupper(v[i])
    /\ \E i \in 1..Len(v) : islower(v[i])
    /\ \E i \in 1..Len(v) : isdigit(v[i])

(* UserRegistrationRequest.validate_password, after Field(min_length, max_length) *)
validate_password(v) ==
    /\ Len(v) >= PasswordMinLength
    /\ Len(v) <= PasswordMaxLength
    /\ \E i \in 1..Len(v) : isupper(v[i])
    /\ \E i \in 1..Len(v) : islower(v[i])
    /\ \E i \in 1..Len(v) : isdigit(v[i])
    /\ \E i \in 1..Len(v) : v[i] \in SpecialChars

(* UserRegistrationRequest.validate_username: the check; the value returned is lower(v) *)
validate_username(v) ==
    /\ Len(v) >= UsernameMinLength
    /\ Len(v) <= UsernameMaxLength
    /\ isalnum(remove(remove(v, "_"), "-"))

(* EmailStr: one '@' with a non-empty local part and domain *)
validate_email(v) ==
    /\ Cardinality({i \in 1..Len(v) : v[i] = "@"}) = 1
    /\ Len(localPart(v)) > 0
    /\ Len(localPart(v)) < Len(v) - 1

(* pydantic EmailStr: the value the model receives keeps the case of the
   local part; the domain is lower-cased *)
EmailStr(v) ==
    [i \in 1..Len(v) |-> IF i > Len(localPart(v)) THEN lowerChar(v[i]) ELSE v[i]]

(* UserRegistrationRequest whose validate_username returns v instead of v.lower() *)
UserRegistrationRequest_keep_case(body) ==
    IF validate_email(body.email) /\ validate_password(body.password)
       /\ validate_username(body.username)
    THEN Some([body EXCEPT !.email = EmailStr(body.email)])
    ELSE None

(* UserRegistrationRequest, built from the body: None when validation fails (422), else
   the model the handler receives, its username lower-cased *)
UserRegistrationRequest(body) ==
    IF validate_email(body.email) /\ validate_password(body.password)
       /\ validate_username(body.username)
    THEN Some([body EXCEPT !.email = EmailStr(body.email),
                           !.username = lower(body.username)])
    ELSE None

----------------------------------------------------------------------------
(* The identity provider (the boto3 cognito-idp client): the environment.  *)
(* An identity is [Username, Password, sub]; every call answers with one   *)
(* of the responses the pool can give, chosen by the environment.          *)

ClientError(code) == [kind |-> "client_error", Code |-> code, Message |-> <<"msg", code>>]
BotoException == [kind |-> "exception"]

(* the subject the pool issues: one per Username, never reused *)
NewSub(pool, email) == <<"cognito", email>>
HasIdentity(pool, email) == \E i \in pool : i.Username = email
IdentityOf(pool, email) == CHOOSE i \in pool : i.Username = email

AccessTokenOf(sub) == <<"access", sub>>
IdTokenOf(sub) == <<"id", sub>>
RefreshTokenOf(sub) == <<"refresh", sub>>
RotatedRefreshTokenOf(sub) == <<"refresh-rotated", sub>>
ExpiresIn == 3600

AuthenticationResult(sub, rotated) ==
    [AccessToken |-> AccessTokenOf(sub), IdToken |-> IdTokenOf(sub),
     RefreshToken |-> IF rotated THEN RotatedRefreshTokenOf(sub) ELSE RefreshTokenOf(sub),
     ExpiresIn |-> ExpiresIn, TokenType |-> "Bearer"]

(* client.sign_up *)
sign_up(pool, email) ==
    (IF HasIdentity(pool, email)
     THEN {ClientError("UsernameExistsException")}
     ELSE {[kind |-> "ok", UserSub |-> NewSub(pool, email), UserConfirmed |-> c] : c \in BOOLEAN})
    \cup {ClientError(c) : c \in {"InvalidPasswordException", "InvalidParameterException",
                                  "TooManyRequestsException"}}
    \cup {BotoException}

(* the pool after sign_up answered resp *)
PoolAfterSignUp(pool, email, password, resp) ==
    IF resp.kind = "ok"
    THEN pool \cup {[Username |-> email, Password |-> Some(password), sub |-> resp.UserSub]}
    ELSE pool

(* client.initiate_auth(AuthFlow='USER_PASSWORD_AUTH') *)
initiate_auth_password(pool, email, password) ==
    (IF HasIdentity(pool, email)
     THEN IF IdentityOf(pool, email).Password = Some(password)
          THEN {[kind |-> "ok", ChallengeName |-> None, Session |-> None,
                 AuthenticationResult |-> Some(AuthenticationResult(IdentityOf(pool, email).sub, FALSE))],
                [kind |-> "ok", ChallengeName |-> Some(<<"NEW_PASSWORD_REQUIRED">>),
                 Session |-> Some(<<"session", IdentityOf(pool, email).sub>>),
                 AuthenticationResult |-> None],
                ClientError("UserNotConfirmedException"),
                ClientError("PasswordResetRequiredException")}
          ELSE {ClientError("NotAuthorizedException")}
     ELSE {ClientError("UserNotFoundException")})
    \cup {ClientError("TooManyRequestsException"), BotoException}

(* client.initiate_auth(AuthFlow='REFRESH_TOKEN_AUTH'): the answer never
   carries the old refresh token; with rotation it carries a new one *)
initiate_auth_refresh(pool, token) ==
    (IF \E i \in pool : token = RefreshTokenOf(i.sub)
     THEN LET i == CHOOSE j \in pool : token = RefreshTokenOf(j.sub) IN
          {[kind |-> "ok", ChallengeName |-> None, Session |-> None,
            AuthenticationResult |-> Some(AuthenticationResult(i.sub, TRUE))]}
     ELSE {ClientError("NotAuthorizedException")})
    \cup {ClientError("TooManyRequestsException"), BotoException}

(* client.get_user(AccessToken=token) *)
get_user(pool, token) ==
    (IF \E i \in pool : token = AccessTokenOf(i.sub)
     THEN LET i == CHOOSE j \in pool : token = AccessTokenOf(j.sub) IN
          {[kind |-> "ok", Username |-> i.Username,
            UserAttributes |-> [sub |-> i.sub, email |-> i.Username]]}
     ELSE {ClientError("NotAuthorizedException")})
    \cup {ClientError("TooManyRequestsException"), BotoException}

(* google.oauth2.id_token.verify_oauth2_token: the claims of a Google id
   token, None when verification raises *)
GoogleTokenBob == <<"gtoken", 1>>
GoogleTokenAb == <<"gtoken", 2>>
GoogleTokenForged == <<"gtoken", 0>>
verify_oauth2_token(token) ==
    IF token = GoogleTokenBob
    THEN Some([email |-> <<"b", "o", "b", "@", "x">>, sub |-> <<"google", <<"1">>>>,
               given_name |-> Some(<<"B", "o", "b">>), family_name |-> None])
    ELSE IF token = GoogleTokenAb
    THEN Some([email |-> <<"a", ".", "b", "@", "x">>, sub |-> <<"google", <<"2">>>>,
               given_name |-> None, family_name |-> None])
    ELSE None

(* client.initiate_auth(AuthFlow='CUSTOM_AUTH'): the pool signs the
   federated user in, provisioning the identity when it has none *)
SubForFederated(pool, email) ==
    IF HasIdentity(pool, email) THEN IdentityOf(pool, email).sub ELSE NewSub(pool, email)

initiate_auth_custom(pool, email) ==
    {[kind |-> "ok", ChallengeName |-> None, Session |-> None,
      AuthenticationResult |-> Some(AuthenticationResult(SubForFederated(pool, email), FALSE))],
     [kind |-> "ok", ChallengeName |-> Some(<<"CUSTOM_CHALLENGE">>),
      Session |-> Some(<<"session", SubForFederated(pool, email)>>),
      AuthenticationResult |-> None],
     ClientError("NotAuthorizedException"), BotoException}

PoolAfterCustomAuth(pool, email, resp) ==
    IF resp.kind = "ok" /\ ~IsNone(resp.AuthenticationResult) /\ ~HasIdentity(pool, email)
    THEN pool \cup {[Username |-> email, Password |-> None, sub |-> NewSub(pool, email)]}
    ELSE pool

----------------------------------------------------------------------------
(* What the Identity Gateway sends to the provider.  The two generations    *)
(* build the parameters of sign_up and initiate_auth with the same code.   *)

ClientId == <<"c", "l", "i", "e", "n", "t">>
ClientSecret == <<"s", "3", "c", "r", "3", "t">>

(* base64(HMAC-SHA256(key, message)), kept symbolic *)
Hmac(key, message) == <<"hmac-sha256", key, message>>

(* CognitoService._get_secret_hash: None without a client secret, else the
   keyed hash of username + client_id *)
_get_secret_hash(secret, username) ==
    IF ~Truthy(secret) THEN None ELSE Some(Hmac(secret[1], username \o ClientId))

(* params of client.sign_up in register_user: given_name and family_name
   are attached when truthy, SecretHash when _get_secret_hash returned one *)
sign_up_params(secret, email, password, username, first_name, last_name) ==
    [ClientId |-> ClientId, Username |-> email, Password |-> password,
     UserAttributes |-> [email |-> Some(email), preferred_username |-> Some(username),
                         given_name |-> IF Truthy(first_name) THEN first_name ELSE None,
                         family_name |-> IF Truthy(last_name) THEN last_name ELSE None],
     SecretHash |-> IF Truthy(_get_secret_hash(secret, email))
                    THEN _get_secret_hash(secret, email) ELSE None]

(* params of client.initiate_auth in authenticate_user *)
password_auth_params(secret, email, password) ==
    [ClientId |-> ClientId, AuthFlow |-> "USER_PASSWORD_AUTH",
     AuthParameters |-> [USERNAME |-> email, PASSWORD |-> password],
     SecretHash |-> IF Truthy(_get_secret_hash(secret, email))
                    THEN _get_secret_hash(secret, email) ELSE None]

(* params of client.initiate_auth in authenticate_with_google: no
   SECRET_HASH is ever attached *)
custom_auth_params(secret, email, google_id_token) ==
    [ClientId |-> ClientId, AuthFlow |-> "CUSTOM_AUTH",
     AuthParameters |-> [USERNAME |-> email, CHALLENGE_NAME |-> "GOOGLE_AUTH",
                         GOOGLE_TOKEN |-> google_id_token],
     SecretHash |-> None]

(* params of client.initiate_auth in refresh_tokens: with a client secret,
   SECRET_HASH is _get_secret_hash(refresh_token) *)
refresh_auth_params(secret, refresh_token) ==
    [ClientId |-> ClientId, AuthFlow |-> "REFRESH_TOKEN_AUTH",
     AuthParameters |-> [REFRESH_TOKEN |-> refresh_token],
     SecretHash |-> IF Truthy(secret) THEN _get_secret_hash(secret, refresh_token)
                    ELSE None]

(* params of client.get_user in verify_token *)
get_user_params(token) == [AccessToken |-> token]

----------------------------------------------------------------------------
(* Identity Gateway of the backend: backend/app/services/cognito_service.py *)
(* Every method returns the pair (success, result) as [success, result].   *)

Get(d, key, default) == IF key \in DOMAIN d THEN d[key] ELSE default

TokenDict(a) ==
    [access_token |-> a.AccessToken, id_token |-> a.IdToken,
     refresh_token |-> a.RefreshToken, expires_in |-> a.ExpiresIn,
     token_type |-> a.TokenType]

backend_register_user(resp) ==
    IF resp.kind = "ok"
    THEN [success |-> TRUE,
          result |-> [user_sub |-> resp.UserSub, user_confirmed |-> resp.UserConfirmed]]
    ELSE IF resp.kind = "client_error"
    THEN [success |-> FALSE, result |-> [error |-> resp.Code, message |-> resp.Message]]
    ELSE [success |-> FALSE, result |-> [error |-> "INTERNAL_ERROR", message |-> <<"str(e)">>]]

(* core/security.py create_access_token: a token signed with the
   application's own key; no handler calls it *)
create_access_token(data, expires_delta) == <<"jwt", "SECRET_KEY", data, expires_delta>>

(* authenticate_user answering with a token of the application's own *)
backend_authenticate_user_local_token(resp) ==
    IF resp.kind = "ok" /\ ~Truthy(resp.ChallengeName) /\ ~IsNone(resp.AuthenticationResult)
    THEN [success |-> TRUE,
          result |-> [TokenDict(resp.AuthenticationResult[1])
                        EXCEPT !.access_token = create_access_token(<<"sub">>, None)]]
    ELSE [success |-> FALSE, result |-> [error |-> "INTERNAL_ERROR", message |-> <<"str(e)">>]]

backend_authenticate_user(resp) ==
    IF resp.kind = "ok"
    THEN IF Truthy(resp.ChallengeName)
         THEN [success |-> FALSE,
               result |-> [error |-> "AUTH_CHALLENGE", challenge |-> resp.ChallengeName[1],
                           session |-> resp.Session]]
         ELSE IF IsNone(resp.AuthenticationResult)     \* KeyError
         THEN [success |-> FALSE, result |-> [error |-> "INTERNAL_ERROR", message |-> <<"str(e)">>]]
         ELSE [success |-> TRUE, result |-> TokenDict(resp.AuthenticationResult[1])]
    ELSE IF resp.kind = "client_error"
    THEN [success |-> FALSE, result |-> [error |-> resp.Code, message |-> resp.Message]]
    ELSE [success |-> FALSE, result |-> [error |-> "INTERNAL_ERROR", message |-> <<"str(e)">>]]

(* idinfo: what verify_oauth2_token returned (None: it raised);
   resp: the pool's answer, None when the pool was not called *)
backend_authenticate_with_google(idinfo, resp) ==
    IF IsNone(idinfo) \/ IsNone(resp)
    THEN [success |-> FALSE, result |-> [error |-> "GOOGLE_AUTH_FAILED", message |-> <<"str(e)">>]]
    ELSE IF resp[1].kind # "ok" \/ IsNone(resp[1].AuthenticationResult)
    THEN [success |-> FALSE, result |-> [error |-> "GOOGLE_AUTH_FAILED", message |-> <<"str(e)">>]]
    ELSE [success |-> TRUE,
          result |-> [email |-> idinfo[1].email,
                      given_name |-> IF IsNone(idinfo[1].given_name) THEN Some(<< >>)
                                     ELSE idinfo[1].given_name,
                      family_name |-> IF IsNone(idinfo[1].family_name) THEN Some(<< >>)
                                      ELSE idinfo[1].family_name,
                      user_sub |-> idinfo[1].sub,
                      tokens |-> TokenDict(resp[1].AuthenticationResult[1])]]

(* refresh_tokens passing on the refresh token of the provider's answer *)
backend_refresh_tokens_provider_token(refresh_token, resp) ==
    IF resp.kind = "ok" /\ ~IsNone(resp.AuthenticationResult)
    THEN [success |-> TRUE, result |-> TokenDict(resp.AuthenticationResult[1])]
    ELSE [success |-> FALSE, result |-> [error |-> "INTERNAL_ERROR", message |-> <<"str(e)">>]]

backend_refresh_tokens(refresh_token, resp) ==
    IF resp.kind = "ok"
    THEN IF IsNone(resp.AuthenticationResult)     \* KeyError
         THEN [success |-> FALSE, result |-> [error |-> "INTERNAL_ERROR", message |-> <<"str(e)">>]]
         ELSE [success |-> TRUE,
               result |-> [TokenDict(resp.AuthenticationResult[1])
                             EXCEPT !.refresh_token = refresh_token]]
    ELSE IF resp.kind = "client_error"
    THEN [success |-> FALSE, result |-> [error |-> resp.Code, message |-> resp.Message]]
    ELSE [success |-> FALSE, result |-> [error |-> "INTERNAL_ERROR", message |-> <<"str(e)">>]]

----------------------------------------------------------------------------
(* The backend's tables (backend/app/models/user.py) and its handlers      *)
(* (backend/app/api/v1/auth.py).  A handler is an operator from the        *)
(* request, the provider's answer and the faults of its commits to the     *)
(* response and the tables it leaves.  created_at/updated_at are omitted.  *)

DbFaults == {"none", "sqlalchemy_error", "exception"}

(* default_factory=uuid4: an id no other row has; the rows of a table differ
   in their email, which stands for the random bits *)
NewId(rows, email) == <<"uuid", email>>

(* class User: the row a handler builds *)
User(id, cognito_id, email, username, first_name, last_name) ==
    [id |-> id, cognito_id |-> cognito_id, email |-> email, username |-> username,
     first_name |-> first_name, last_name |-> last_name,
     last_login |-> None, is_active |-> TRUE]

(* class UserProfile: the row UserProfile(user_id=...) builds *)
UserProfile(user_id) ==
    [user_id |-> user_id, fitness_level |-> None, goals |-> None, equipment |-> None,
     has_completed_onboarding |-> FALSE, age |-> None, height_cm |-> None,
     weight_kg |-> None, preferred_workout_time |-> None, injury_notes |-> None]

(* table users with a unique constraint on the primary key and the email only *)
UserUniqueViolation_email_only(us, row) ==
    \E u \in us : u.id = row.id \/ u.email = row.email

(* the unique constraints of table users: primary key, cognito_id, email, username *)
UserUniqueViolation(us, row) ==
    \E u \in us : \/ u.id = row.id
                  \/ u.cognito_id = row.cognito_id
                  \/ u.email = row.email
                  \/ u.username = row.username

(* select(User).where(User.email == email): exact comparison *)
UserByEmail(us, email) == {u \in us : u.email = email}

HTTPException(status_code, detail, us, ps) ==
    [status |-> status_code, body |-> [detail |-> detail], users |-> us, profiles |-> ps]

(* register writing the User row before it looks at the gateway's answer *)
backend_register_write_first(request, resp, fault1, fault2, us, ps) ==
    LET r == backend_register_user(resp)
        user == User(NewId(us, request.email),
                     IF r.success THEN r.result.user_sub ELSE << >>,
                     request.email, request.username,
                     request.first_name, request.last_name) IN
    IF fault1 # "none" \/ UserUniqueViolation(us, user)
    THEN HTTPException(500, <<"An error occurred during registration">>, us, ps)
    ELSE IF ~r.success
    THEN HTTPException(400, Get(r.result, "message", <<"Registration failed">>),
                       us \cup {user}, ps)
    ELSE [status |-> 200,
          body |-> [user_id |-> user.id, email |-> user.email, username |-> user.username],
          users |-> us \cup {user},
          profiles |-> ps \cup {UserProfile(user.id)}]

(* POST /auth/register *)
backend_register(request, resp, fault1, fault2, us, ps) ==
    LET r == backend_register_user(resp) IN
    IF ~r.success
    THEN HTTPException(400, Get(r.result, "message", <<"Registration failed">>), us, ps)
    ELSE LET user == User(NewId(us, request.email), r.result.user_sub, request.email, request.username,
                          request.first_name, request.last_name) IN
         IF fault1 # "none" \/ UserUniqueViolation(us, user)
         THEN HTTPException(500, <<"An error occurred during registration">>, us, ps)
         ELSE IF fault2 # "none"
         THEN HTTPException(500, <<"An error occurred during registration">>,
                            us \cup {user}, ps)
         ELSE [status |-> 200,
               body |-> [user_id |-> user.id, email |-> user.email,
                         username |-> user.username],
               users |-> us \cup {user},
               profiles |-> ps \cup {UserProfile(user.id)}]

(* POST /auth/login.  The module never imports datetime, so evaluating
   datetime.utcnow() raises NameError, which `except Exception` turns into 500 *)
backend_login(request, resp, fault, us, ps) ==
    LET r == backend_authenticate_user(resp) IN
    IF ~r.success
    THEN HTTPException(401, Get(r.result, "message", <<"Authentication failed">>), us, ps)
    ELSE IF fault # "none"
    THEN HTTPException(500, <<"An error occurred during login">>, us, ps)
    ELSE IF UserByEmail(us, request.email) # {}
    THEN HTTPException(500, <<"An error occurred during login">>, us, ps)
    ELSE [status |-> 200, body |-> r.result, users |-> us, profiles |-> ps]

(* google_auth forgetting the UserProfile of the User it creates *)
backend_google_auth_no_profile(idinfo, resp, fault1, fault2, us, ps) ==
    LET r == backend_authenticate_with_google(idinfo, resp) IN
    IF ~r.success
    THEN HTTPException(401, Get(r.result, "message", <<"Google authentication failed">>), us, ps)
    ELSE LET email == r.result.email
             user == User(NewId(us, email), r.result.user_sub, email, localPart(email),
                          r.result.given_name, r.result.family_name) IN
         IF UserByEmail(us, email) # {}
         THEN [status |-> 200, body |-> r.result.tokens, users |-> us, profiles |-> ps]
         ELSE IF fault1 # "none" \/ UserUniqueViolation(us, user)
         THEN HTTPException(500, <<"An error occurred during Google authentication">>, us, ps)
         ELSE [status |-> 200, body |-> r.result.tokens,
               users |-> us \cup {user}, profiles |-> ps]

(* POST /auth/google *)
backend_google_auth(idinfo, resp, fault1, fault2, us, ps) ==
    LET r == backend_authenticate_with_google(idinfo, resp) IN
    IF ~r.success
    THEN HTTPException(401, Get(r.result, "message", <<"Google authentication failed">>), us, ps)
    ELSE LET email == r.result.email
             user == User(NewId(us, email), r.result.user_sub, email, localPart(email),
                          r.result.given_name, r.result.family_name) IN
         IF UserByEmail(us, email) # {}
         THEN [status |-> 200, body |-> r.result.tokens, users |-> us, profiles |-> ps]
         ELSE IF fault1 # "none" \/ UserUniqueViolation(us, user)
         THEN HTTPException(500, <<"An error occurred during Google authentication">>, us, ps)
         ELSE IF fault2 # "none"
         THEN HTTPException(500, <<"An error occurred during Google authentication">>,
                            us \cup {user}, ps)
         ELSE [status |-> 200, body |-> r.result.tokens,
               users |-> us \cup {user},
               profiles |-> ps \cup {UserProfile(user.id)}]

(* POST /auth/refresh-token: the handler takes no database session *)
backend_refresh_token(request, resp, us, ps) ==
    LET r == backend_refresh_tokens(request.refresh_token, resp) IN
    IF ~r.success
    THEN HTTPException(401, Get(r.result, "message", <<"Token refresh failed">>), us, ps)
    ELSE [status |-> 200, body |-> r.result, users |-> us, profiles |-> ps]

----------------------------------------------------------------------------
(* Token Verifier (backend/app/core/security.py) and onboarding            *)
(* (backend/app/api/v1/onboarding.py, backend/app/schemas/profile.py)      *)

AgeMin == 13
AgeMax == 120
HeightMin == 50
HeightMax == 300
WeightMin == 20
WeightMax == 500
WorkoutTimeMaxLength == 50

FitnessLevel == {<<"Beginner">>, <<"Intermediate">>, <<"Advanced">>}

ProfileFields ==
    {"fitness_level", "goals", "equipment", "age", "height_cm", "weight_kg",
     "preferred_workout_time", "injury_notes"}

InRange(body, field, lo, hi) ==
    field \in DOMAIN body /\ ~IsNone(body[field])
        => body[field][1] >= lo /\ body[field][1] <= hi

(* UserProfileUpdateRequest without the bounds of height_cm *)
UserProfileUpdateRequest_no_height_bound(body) ==
    /\ DOMAIN body \subseteq ProfileFields
    /\ InRange(body, "age", AgeMin, AgeMax)
    /\ InRange(body, "weight_kg", WeightMin, WeightMax)

(* UserProfileUpdateRequest: a body is a function from the fields it sets
   to optional values (an explicit null is None); TRUE when it validates *)
UserProfileUpdateRequest(body) ==
    /\ DOMAIN body \subseteq ProfileFields
    /\ InRange(body, "age", AgeMin, AgeMax)
    /\ InRange(body, "height_cm", HeightMin, HeightMax)
    /\ InRange(body, "weight_kg", WeightMin, WeightMax)
    /\ ("fitness_level" \in DOMAIN body /\ ~IsNone(body["fitness_level"])
            => body["fitness_level"][1] \in FitnessLevel)
    /\ ("preferred_workout_time" \in DOMAIN body /\ ~IsNone(body["preferred_workout_time"])
            => Len(body["preferred_workout_time"][1]) <= WorkoutTimeMaxLength)

(* CognitoAuth.verify_token: the user_info, or None when it raises
   (HTTPException 401 on ClientError, the exception itself otherwise) *)
verify_token(resp) ==
    IF resp.kind = "ok"
    THEN Some([username |-> resp.Username, attributes |-> resp.UserAttributes,
               sub |-> Get(resp.UserAttributes, "sub", None)])
    ELSE None

(* get_current_user: every exception of verify_token, its HTTPException
   included, becomes the same 401 *)
get_current_user(resp) ==
    IF IsNone(verify_token(resp))
    THEN [ok |-> FALSE, status |-> 401, detail |-> <<"Could not validate credentials">>]
    ELSE [ok |-> TRUE, user_info |-> verify_token(resp)[1]]

(* model_dump() without exclude_unset: the fields the body leaves out are None *)
ApplyUpdateWithUnset(profile, update_data) ==
    [f \in DOMAIN profile |->
        IF f \in DOMAIN update_data THEN update_data[f]
        ELSE IF f \in ProfileFields THEN None
        ELSE profile[f]]

(* request.model_dump(exclude_unset=True) then setattr for every item *)
ApplyUpdate(profile, update_data) ==
    [f \in DOMAIN profile |->
        IF f \in DOMAIN update_data THEN update_data[f] ELSE profile[f]]

UserProfileResponse(user, profile) ==
    [id |-> user.id, email |-> user.email, username |-> user.username,
     first_name |-> user.first_name, last_name |-> user.last_name,
     fitness_level |-> profile.fitness_level, goals |-> profile.goals,
     equipment |-> profile.equipment,
     has_completed_onboarding |-> profile.has_completed_onboarding,
     age |-> profile.age, height_cm |-> profile.height_cm,
     weight_kg |-> profile.weight_kg,
     preferred_workout_time |-> profile.preferred_workout_time,
     injury_notes |-> profile.injury_notes]

(* complete_onboarding looking the User up by the token's username (the
   email) instead of its subject *)
complete_onboarding_by_email(request, current_user, fault1, fault2, us, ps) ==
    LET found == {u \in us : u.email = current_user.username} IN
    IF found = {}
    THEN HTTPException(404, <<"User not found">>, us, ps)
    ELSE LET user == CHOOSE u \in found : TRUE
             existing == {q \in ps : q.user_id = user.id}
             ps1 == IF existing = {} THEN ps \cup {UserProfile(user.id)} ELSE ps
             profile == CHOOSE q \in ps1 : q.user_id = user.id
             updated == [ApplyUpdate(profile, request)
                           EXCEPT !.has_completed_onboarding = TRUE] IN
         IF existing = {} /\ fault1 # "none"
         THEN HTTPException(500, <<"Internal Server Error">>, us, ps)
         ELSE IF fault2 # "none"
         THEN HTTPException(500, <<"Internal Server Error">>, us, ps1)
         ELSE [status |-> 200, body |-> UserProfileResponse(user, updated),
               users |-> us, profiles |-> (ps1 \ {profile}) \cup {updated}]

(* complete_onboarding flipping the completion flag instead of setting it *)
complete_onboarding_toggle(request, current_user, fault1, fault2, us, ps) ==
    LET found == {u \in us : u.cognito_id = current_user.sub} IN
    IF found = {}
    THEN HTTPException(404, <<"User not found">>, us, ps)
    ELSE LET user == CHOOSE u \in found : TRUE
             existing == {q \in ps : q.user_id = user.id}
             ps1 == IF existing = {} THEN ps \cup {UserProfile(user.id)} ELSE ps
             profile == CHOOSE q \in ps1 : q.user_id = user.id
             updated == [ApplyUpdate(profile, request)
                           EXCEPT !.has_completed_onboarding = ~profile.has_completed_onboarding] IN
         IF existing = {} /\ fault1 # "none"
         THEN HTTPException(500, <<"Internal Server Error">>, us, ps)
         ELSE IF fault2 # "none"
         THEN HTTPException(500, <<"Internal Server Error">>, us, ps1)
         ELSE [status |-> 200, body |-> UserProfileResponse(user, updated),
               users |-> us, profiles |-> (ps1 \ {profile}) \cup {updated}]

(* PUT /onboarding, current_user being what get_current_user returned.
   fault1: the commit of the lazily created profile; fault2: the final
   commit.  An exception here is unhandled: the framework answers 500. *)
complete_onboarding(request, current_user, fault1, fault2, us, ps) ==
    LET found == {u \in us : u.cognito_id = current_user.sub} IN
    IF found = {}
    THEN HTTPException(404, <<"User not found">>, us, ps)
    ELSE LET user == CHOOSE u \in found : TRUE
             existing == {q \in ps : q.user_id = user.id}
             ps1 == IF existing = {} THEN ps \cup {UserProfile(user.id)} ELSE ps
             profile == CHOOSE q \in ps1 : q.user_id = user.id
             updated == [ApplyUpdate(profile, request)
                           EXCEPT !.has_completed_onboarding = TRUE] IN
         IF existing = {} /\ fault1 # "none"
         THEN HTTPException(500, <<"Internal Server Error">>, us, ps)
         ELSE IF fault2 # "none"
         THEN HTTPException(500, <<"Internal Server Error">>, us, ps1)
         ELSE [status |-> 200, body |-> UserProfileResponse(user, updated),
               users |-> us, profiles |-> (ps1 \ {profile}) \cup {updated}]

----------------------------------------------------------------------------
(* The src generation: src/services/cognito_service.py,                    *)
(* src/database/user_repository.py and src/api/auth.py                     *)

src_register_user(resp) ==
    IF resp.kind = "ok"
    THEN [success |-> TRUE,
          result |-> [user_sub |-> resp.UserSub, user_confirmed |-> resp.UserConfirmed]]
    ELSE IF resp.kind = "client_error"
    THEN IF resp.Code = "UsernameExistsException"
         THEN [success |-> FALSE, result |-> [error |-> "USER_EXISTS",
                   message |-> <<"User with this email already exists">>]]
         ELSE IF resp.Code = "InvalidPasswordException"
         THEN [success |-> FALSE, result |-> [error |-> "INVALID_PASSWORD", message |-> resp.Message]]
         ELSE IF resp.Code = "InvalidParameterException"
         THEN [success |-> FALSE, result |-> [error |-> "INVALID_PARAMETER", message |-> resp.Message]]
         ELSE [success |-> FALSE, result |-> [error |-> "REGISTRATION_FAILED",
                   message |-> <<"Failed to register user">>]]
    ELSE [success |-> FALSE, result |-> [error |-> "INTERNAL_ERROR",
              message |-> <<"An unexpected error occurred">>]]

src_authenticate_user(resp) ==
    IF resp.kind = "ok"
    THEN IF Truthy(resp.ChallengeName)
         THEN [success |-> FALSE,
               result |-> [error |-> "AUTH_CHALLENGE", challenge |-> resp.ChallengeName[1],
                           session |-> resp.Session,
                           message |-> <<"Authentication challenge required">>]]
         ELSE IF IsNone(resp.AuthenticationResult)     \* KeyError
         THEN [success |-> FALSE, result |-> [error |-> "INTERNAL_ERROR",
                   message |-> <<"An unexpected error occurred">>]]
         ELSE [success |-> TRUE, result |-> TokenDict(resp.AuthenticationResult[1])]
    ELSE IF resp.kind = "client_error"
    THEN IF resp.Code = "NotAuthorizedException"
         THEN [success |-> FALSE, result |-> [error |-> "INVALID_CREDENTIALS",
                   message |-> <<"Invalid email or password">>]]
         ELSE IF resp.Code = "UserNotFoundException"
         THEN [success |-> FALSE, result |-> [error |-> "USER_NOT_FOUND", message |-> <<"User not found">>]]
         ELSE IF resp.Code = "UserNotConfirmedException"
         THEN [success |-> FALSE, result |-> [error |-> "USER_NOT_CONFIRMED",
                   message |-> <<"User account not confirmed">>]]
         ELSE IF resp.Code = "PasswordResetRequiredException"
         THEN [success |-> FALSE, result |-> [error |-> "PASSWORD_RESET_REQUIRED",
                   message |-> <<"Password reset required">>]]
         ELSE [success |-> FALSE, result |-> [error |-> "AUTH_FAILED",
                   message |-> <<"Authentication failed">>]]
    ELSE [success |-> FALSE, result |-> [error |-> "INTERNAL_ERROR",
              message |-> <<"An unexpected error occurred">>]]

(* the dict returned on success has no refresh_token key *)
src_refresh_tokens(resp) ==
    IF resp.kind = "ok"
    THEN IF IsNone(resp.AuthenticationResult)     \* KeyError
         THEN [success |-> FALSE, result |-> [error |-> "INTERNAL_ERROR",
                   message |-> <<"An unexpected error occurred">>]]
         ELSE LET a == resp.AuthenticationResult[1] IN
              [success |-> TRUE,
               result |-> [access_token |-> a.AccessToken, id_token |-> a.IdToken,
                           expires_in |-> a.ExpiresIn, token_type |-> a.TokenType]]
    ELSE IF resp.kind = "client_error"
    THEN IF resp.Code = "NotAuthorizedException"
         THEN [success |-> FALSE, result |-> [error |-> "INVALID_REFRESH_TOKEN",
                   message |-> <<"Invalid or expired refresh token">>]]
         ELSE [success |-> FALSE, result |-> [error |-> "REFRESH_FAILED",
                   message |-> <<"Failed to refresh tokens">>]]
    ELSE [success |-> FALSE, result |-> [error |-> "INTERNAL_ERROR",
              message |-> <<"An unexpected error occurred">>]]

(* get_user_info: no route of src/api/auth.py calls it *)
src_get_user_info(resp) ==
    IF resp.kind = "ok"
    THEN [success |-> TRUE,
          result |-> [username |-> resp.Username, attributes |-> resp.UserAttributes]]
    ELSE IF resp.kind = "client_error"
    THEN IF resp.Code = "NotAuthorizedException"
         THEN [success |-> FALSE, result |-> [error |-> "INVALID_TOKEN",
                   message |-> <<"Invalid or expired access token">>]]
         ELSE [success |-> FALSE, result |-> [error |-> "GET_USER_FAILED",
                   message |-> <<"Failed to get user information">>]]
    ELSE [success |-> FALSE, result |-> [error |-> "INTERNAL_ERROR",
              message |-> <<"An unexpected error occurred">>]]

(* the columns str(IntegrityError) names: the violated constraint's column
   and, in its [SQL: INSERT INTO users (...)] part, every column of the row *)
InsertColumns ==
    {"id", "cognito_id", "email", "username", "first_name", "last_name",
     "created_at", "updated_at", "last_login", "metadata"}

(* the unique columns of table users a new row collides on *)
Collisions(rows, row) ==
    {c \in {"cognito_id", "email", "username"} : \E u \in rows : u[c] = row[c]}

(* create_user whose failed commit leaves the added row behind *)
create_user_no_rollback(cognito_id, email, username, first_name, last_name, metadata, fault, rows) ==
    LET user == [id |-> NewId(rows, lower(email)), cognito_id |-> cognito_id, email |-> lower(email),
                 username |-> lower(username), first_name |-> first_name,
                 last_name |-> last_name, last_login |-> None,
                 metadata |-> Some(metadata)] IN
    IF fault = "sqlalchemy_error"
    THEN [result |-> [error |-> "DATABASE_ERROR"], rows |-> rows \cup {user}]
    ELSE IF fault = "exception"
    THEN [result |-> [error |-> "INTERNAL_ERROR"], rows |-> rows \cup {user}]
    ELSE IF Collisions(rows, user) # {}
    THEN [result |-> [error |-> "EMAIL_EXISTS"], rows |-> rows]
    ELSE [result |-> [id |-> user.id, cognito_id |-> user.cognito_id, email |-> user.email,
                      username |-> user.username, first_name |-> user.first_name,
                      last_name |-> user.last_name],
          rows |-> rows \cup {user}]

(* UserRepository.create_user: [result, rows], rows being the table after *)
create_user(cognito_id, email, username, first_name, last_name, metadata, fault, rows) ==
    LET user == [id |-> NewId(rows, lower(email)), cognito_id |-> cognito_id, email |-> lower(email),
                 username |-> lower(username), first_name |-> first_name,
                 last_name |-> last_name, last_login |-> None,
                 metadata |-> Some(metadata)]
        text == Collisions(rows, user) \cup InsertColumns IN
    IF fault = "sqlalchemy_error"
    THEN [result |-> [error |-> "DATABASE_ERROR"], rows |-> rows]
    ELSE IF fault = "exception"
    THEN [result |-> [error |-> "INTERNAL_ERROR"], rows |-> rows]
    ELSE IF Collisions(rows, user) # {}
    THEN [result |-> [error |-> IF "email" \in text THEN "EMAIL_EXISTS"
                               ELSE IF "username" \in text THEN "USERNAME_EXISTS"
                               ELSE IF "cognito_id" \in text THEN "COGNITO_ID_EXISTS"
                               ELSE "DUPLICATE_USER"],
          rows |-> rows]
    ELSE [result |-> [id |-> user.id, cognito_id |-> user.cognito_id, email |-> user.email,
                      username |-> user.username, first_name |-> user.first_name,
                      last_name |-> user.last_name],
          rows |-> rows \cup {user}]

(* UserRepository.get_user_by_email: the row's dict, None when there is no
   row or the query raises SQLAlchemyError; no route calls it *)
get_user_by_email(email, fault, rows) ==
    LET found == {u \in rows : u.email = lower(email)} IN
    IF fault = "sqlalchemy_error" \/ found = {}
    THEN None
    ELSE LET user == CHOOSE u \in found : TRUE IN
         Some([id |-> user.id, cognito_id |-> user.cognito_id, email |-> user.email,
               username |-> user.username, first_name |-> user.first_name,
               last_name |-> user.last_name, last_login |-> user.last_login])

(* UserRepository.delete_user: [result, rows]; no route calls it *)
delete_user(email, fault, rows) ==
    LET found == {u \in rows : u.email = lower(email)} IN
    IF fault = "sqlalchemy_error" \/ found = {}
    THEN [result |-> FALSE, rows |-> rows]
    ELSE [result |-> TRUE, rows |-> rows \ {CHOOSE u \in found : TRUE}]

(* update_last_login whose query has no filter: every row is stamped *)
update_last_login_all_rows(email, fault, rows, t) ==
    IF fault = "sqlalchemy_error"
    THEN [result |-> FALSE, raised |-> FALSE, rows |-> rows]
    ELSE IF fault = "exception"
    THEN [result |-> FALSE, raised |-> TRUE, rows |-> rows]
    ELSE IF rows = {}
    THEN [result |-> FALSE, raised |-> FALSE, rows |-> rows]
    ELSE [result |-> TRUE, raised |-> FALSE,
          rows |-> {[u EXCEPT !.last_login = Some(t)] : u \in rows}]

(* UserRepository.update_last_login: [result, raised, rows]; only
   SQLAlchemyError is caught, any other exception leaves the method *)
update_last_login(email, fault, rows, t) ==
    LET found == {u \in rows : u.email = lower(email)} IN
    IF fault = "sqlalchemy_error"
    THEN [result |-> FALSE, raised |-> FALSE, rows |-> rows]
    ELSE IF fault = "exception"
    THEN [result |-> FALSE, raised |-> TRUE, rows |-> rows]
    ELSE IF found = {}
    THEN [result |-> FALSE, raised |-> FALSE, rows |-> rows]
    ELSE LET user == CHOOSE u \in found : TRUE IN
         [result |-> TRUE, raised |-> FALSE,
          rows |-> (rows \ {user}) \cup {[user EXCEPT !.last_login = Some(t)]}]


ErrorResponse(status_code, error, message, rows) ==
    [status |-> status_code,
     body |-> [detail |-> [error |-> error, message |-> message, status_code |-> status_code]],
     rows |-> rows]

(* error_mapping.get(error, default) of register *)
RegisterErrorStatus(error) ==
    IF error = "USER_EXISTS" THEN 409
    ELSE IF error = "INVALID_PASSWORD" THEN 400
    ELSE IF error = "INVALID_PARAMETER" THEN 400
    ELSE IF error = "REGISTRATION_FAILED" THEN 500
    ELSE IF error = "INTERNAL_ERROR" THEN 500
    ELSE 400

(* error_mapping.get(error, default) of login *)
LoginErrorStatus(error) ==
    IF error = "INVALID_CREDENTIALS" THEN 401
    ELSE IF error = "USER_NOT_FOUND" THEN 404
    ELSE IF error = "USER_NOT_CONFIRMED" THEN 403
    ELSE IF error = "PASSWORD_RESET_REQUIRED" THEN 403
    ELSE IF error = "AUTH_CHALLENGE" THEN 202
    ELSE IF error = "AUTH_FAILED" THEN 401
    ELSE IF error = "INTERNAL_ERROR" THEN 500
    ELSE 401

(* error_mapping.get(error, default) of refresh_token *)
RefreshErrorStatus(error) ==
    IF error = "INVALID_REFRESH_TOKEN" THEN 401
    ELSE IF error = "REFRESH_FAILED" THEN 400
    ELSE IF error = "INTERNAL_ERROR" THEN 500
    ELSE 400

(* POST /api/auth/register *)
src_register(request, resp, fault, rows) ==
    LET r == src_register_user(resp) IN
    IF ~r.success
    THEN ErrorResponse(RegisterErrorStatus(Get(r.result, "error", "UNKNOWN_ERROR")),
                       Get(r.result, "error", "UNKNOWN_ERROR"),
                       Get(r.result, "message", <<"Registration failed">>), rows)
    ELSE LET db_result == create_user(r.result.user_sub, request.email, request.username,
                                      request.first_name, request.last_name,
                                      [confirmed |-> r.result.user_confirmed], fault, rows) IN
         [status |-> 201,
          body |-> [user_id |-> r.result.user_sub, email |-> request.email,
                    username |-> request.username],
          rows |-> db_result.rows]

(* POST /api/auth/login *)
src_login(request, resp, fault, rows, t) ==
    LET r == src_authenticate_user(resp) IN
    IF ~r.success
    THEN IF Get(r.result, "error", "UNKNOWN_ERROR") = "AUTH_CHALLENGE"
         THEN [status |-> 202,
               body |-> [challenge |-> r.result.challenge, session |-> r.result.session,
                         message |-> r.result.message],
               rows |-> rows]
         ELSE ErrorResponse(LoginErrorStatus(Get(r.result, "error", "UNKNOWN_ERROR")),
                            Get(r.result, "error", "UNKNOWN_ERROR"),
                            Get(r.result, "message", <<"Authentication failed">>), rows)
    ELSE LET upd == update_last_login(request.email, fault, rows, t) IN
         IF upd.raised
         THEN ErrorResponse(500, "INTERNAL_ERROR",
                            <<"An unexpected error occurred during login">>, upd.rows)
         ELSE [status |-> 200,
               body |-> [access_token |-> r.result.access_token,
                         id_token |-> r.result.id_token,
                         refresh_token |-> r.result.refresh_token,
                         expires_in |-> r.result.expires_in,
                         token_type |-> Get(r.result, "token_type", "Bearer")],
               rows |-> upd.rows]

(* refresh_token stamping last_login as login does *)
src_refresh_token_stamping(request, resp, rows) ==
    LET r == src_refresh_tokens(resp) IN
    IF ~r.success
    THEN ErrorResponse(RefreshErrorStatus(Get(r.result, "error", "UNKNOWN_ERROR")),
                       Get(r.result, "error", "UNKNOWN_ERROR"),
                       Get(r.result, "message", <<"Token refresh failed">>), rows)
    ELSE [status |-> 200,
          body |-> [access_token |-> r.result.access_token,
                    id_token |-> r.result.id_token,
                    refresh_token |-> request.refresh_token,
                    expires_in |-> r.result.expires_in,
                    token_type |-> Get(r.result, "token_type", "Bearer")],
          rows |-> {[u EXCEPT !.last_login = Some(0)] : u \in rows}]

(* POST /api/auth/refresh-token: the handler never calls the repository *)
src_refresh_token(request, resp, rows) ==
    LET r == src_refresh_tokens(resp) IN
    IF ~r.success
    THEN ErrorResponse(RefreshErrorStatus(Get(r.result, "error", "UNKNOWN_ERROR")),
                       Get(r.result, "error", "UNKNOWN_ERROR"),
                       Get(r.result, "message", <<"Token refresh failed">>), rows)
    ELSE [status |-> 200,
          body |-> [access_token |-> r.result.access_token,
                    id_token |-> r.result.id_token,
                    refresh_token |-> request.refresh_token,
                    expires_in |-> r.result.expires_in,
                    token_type |-> Get(r.result, "token_type", "Bearer")],
          rows |-> rows]

----------------------------------------------------------------------------
(* The requests the clients send *)

EmailBob == <<"b", "o", "b", "@", "x">>
EmailBobUpper == <<"B", "o", "b", "@", "x">>
EmailAb == <<"a", ".", "b", "@", "x">>
Emails == {EmailBob, EmailBobUpper, EmailAb}

PasswordValid == <<"V", "a", "l", "i", "d", "1", "2", "3", "!">>     \* "Valid123!"
PasswordOther == <<"O", "t", "h", "e", "r", "1", "2", "3", "?">>     \* "Other123?"
PasswordShort == <<"s", "h", "o", "r", "t", "1", "!">>               \* "short1!"
Passwords == {PasswordValid, PasswordOther, PasswordShort}

Usernames == {<<"b", "o", "b">>, <<"B", "o", "b">>, <<"a", "m", "y">>, <<"a", " ", "b">>}

(* passwords that miss one condition of the policy each, and one that
   meets them all but is longer than max_length *)
PasswordNoUpper == <<"v", "a", "l", "i", "d", "1", "2", "3", "!">>    \* "valid123!"
PasswordNoLower == <<"V", "A", "L", "I", "D", "1", "2", "3", "!">>    \* "VALID123!"
PasswordNoDigit == <<"V", "a", "l", "i", "d", "a", "b", "c", "!">>    \* "Validabc!"
PasswordNoSymbol == <<"V", "a", "l", "i", "d", "1", "2", "3", "4">>   \* "Valid1234"
PasswordTooLong ==
    PasswordValid \o [i \in 1..(PasswordMaxLength + 1 - Len(PasswordValid)) |-> "a"]
PolicyProbes ==
    {PasswordNoUpper, PasswordNoLower, PasswordNoDigit, PasswordNoSymbol, PasswordTooLong}

UsernameMixed == <<"V", "a", "l", "i", "d", "_", "U", "s", "e", "r", "-", "1">>  \* "Valid_User-1"
UsernameBad ==
    <<"b", "a", "d", " ", "u", "s", "e", "r", "n", "a", "m", "e", "!">>           \* "bad username!"
UsernameDashes == <<"_", "-", "_">>                                              \* "_-_"
UsernameProbes == {UsernameMixed, UsernameBad, UsernameDashes}

RegistrationBodies ==
    {[email |-> e, password |-> p, username |-> u,
      first_name |-> Some(<<"A", "l">>), last_name |-> None] :
        e \in Emails, p \in {PasswordValid, PasswordShort}, u \in Usernames}
    \cup
    {[email |-> EmailBob, password |-> p, username |-> <<"b", "o", "b">>,
      first_name |-> Some(<<"A", "l">>), last_name |-> None] : p \in PolicyProbes}
    \cup
    {[email |-> EmailBob, password |-> PasswordValid, username |-> u,
      first_name |-> Some(<<"A", "l">>), last_name |-> None] : u \in UsernameProbes}

LoginBodies == [email : Emails, password : {PasswordValid, PasswordOther}]

(* which commit of a backend handler raises: none, the first, the second *)
CommitFaults == {<<"none", "none">>, <<"exception", "none">>, <<"none", "exception">>}

(* the database faults a request can meet: the database is reached only
   after the provider answered the call (resp: NoCall when none was made) *)
FaultsAfter(resp, faults, nofault) ==
    IF ~IsNone(resp) /\ resp[1].kind = "ok" THEN faults ELSE {nofault}

GoogleBodies == [google_id_token : {GoogleTokenBob, GoogleTokenAb, GoogleTokenForged}]

ForgedSub == <<"cognito", <<"?">>>>
RefreshBodies(pool) ==
    [refresh_token : {RefreshTokenOf(i.sub) : i \in pool} \cup {RefreshTokenOf(ForgedSub)}]

(* Authorization: Bearer <token>, or no header (None) *)
Credentials(pool) ==
    {None, Some(AccessTokenOf(ForgedSub))} \cup {Some(AccessTokenOf(i.sub)) : i \in pool}

OnboardingBodies ==
    {[f \in {"age"} |-> Some(25)],
     [f \in {"age"} |-> None],
     [f \in {"age"} |-> Some(12)],
     [f \in {"goals", "equipment"} |->
         IF f = "goals" THEN Some(<< <<"l", "o", "s", "e">> >>) ELSE Some(<< <<"b", "a", "r">> >>)]}

(* bodies with one numeric field outside its range each, and one that
   sets a valid age beside a height outside its range; they are sent with
   credentials the Token Verifier accepts *)
BoundsProbes ==
    {[f \in {"age"} |-> Some(AgeMax + 1)],
     [f \in {"height_cm"} |-> Some(HeightMin - 1)],
     [f \in {"weight_kg"} |-> Some(WeightMax + 1)],
     [f \in {"age", "height_cm"} |-> IF f = "age" THEN Some(25) ELSE Some(HeightMax + 1)]}

----------------------------------------------------------------------------
(* The state machine *)

NoCall == None

(* the requests served concurrently: none *)
Requests == 1..MaxRequests
NoRequest == [op |-> "idle"]
NoRequests == [p \in Requests |-> NoRequest]

(* no request in progress *)
Idle ==
    [op |-> "idle", request |-> None, status |-> 0, body |-> None,
     sent |-> NoCall, provider |-> NoCall, faults |-> << >>]

Init ==
    /\ app \in {"backend", "src"}
    /\ client_secret = Some(ClientSecret)
    /\ idp = {}
    /\ users = {}
    /\ profiles = {}
    /\ repo_users = {}
    /\ now = 1
    /\ registered = {}
    /\ inflight = NoRequests
    /\ last = Idle

Rejected(op, body) ==
    [op |-> op, request |-> Some(body), status |-> 422,
     body |-> Some([detail |-> <<"validation error">>]),
     sent |-> NoCall, provider |-> NoCall, faults |-> << >>]

(* sent: the parameters of the provider call, resp: its answer (NoCall when
   none was made); faults: the database faults the environment injected
   into the request *)
Handled(op, body, sent, resp, faults, out) ==
    [op |-> op, request |-> Some(body), status |-> out.status,
     body |-> Some(out.body), sent |-> sent, provider |-> resp, faults |-> faults]

(* a request FastAPI rejects while building the request model *)
RegisterRejected ==
    /\ last = Idle
    /\ \E body \in RegistrationBodies :
        /\ IsNone(UserRegistrationRequest(body))
        /\ last' = Rejected("register", body)
    /\ UNCHANGED <<inflight, app, client_secret, idp, users, profiles, repo_users, now, registered>>

BackendRegister ==
    /\ app = "backend"
    /\ last = Idle
    /\ \E body \in RegistrationBodies :
        /\ ~IsNone(UserRegistrationRequest(body))
        /\ \E request \in {UserRegistrationRequest(body)[1]} :
           \E params \in {sign_up_params(client_secret, request.email, request.password,
                                        request.username, request.first_name,
                                        request.last_name)} :
           \E resp \in sign_up(idp, params.Username) :
           \E fault \in FaultsAfter(Some(resp), CommitFaults, <<"none", "none">>) :
              /\ resp.kind = "ok" => Cardinality(idp) < MaxIdentities
              /\ \E out \in {backend_register(request, resp, fault[1], fault[2], users, profiles)} :
                 /\ idp' = PoolAfterSignUp(idp, params.Username, params.Password, resp)
                 /\ users' = out.users
                 /\ profiles' = out.profiles
                 /\ last' = Handled("register", body, Some(params), Some(resp), fault, out)
                 /\ registered' = IF out.status \in {200, 201}
                                  THEN registered \cup {request.email} ELSE registered
    /\ UNCHANGED <<inflight, app, client_secret, repo_users, now>>

BackendLogin ==
    /\ app = "backend"
    /\ last = Idle
    /\ \E request \in LoginBodies :
        \E resp \in initiate_auth_password(idp, request.email, request.password) :
        \E fault \in FaultsAfter(Some(resp), {"none", "exception"}, "none") :
        \E params \in {password_auth_params(client_secret, request.email, request.password)},
           out \in {backend_login(request, resp, fault, users, profiles)} :
           /\ users' = out.users
           /\ profiles' = out.profiles
           /\ last' = Handled("login", request, Some(params), Some(resp), <<fault>>, out)
    /\ UNCHANGED <<inflight, app, client_secret, idp, repo_users, now, registered>>

BackendGoogleAuth ==
    /\ app = "backend"
    /\ last = Idle
    /\ \E request \in GoogleBodies :
        \E idinfo \in {verify_oauth2_token(request.google_id_token)} :
        \E resp \in IF IsNone(idinfo) THEN {NoCall}
                    ELSE {Some(x) : x \in initiate_auth_custom(idp, idinfo[1].email)} :
        \E fault \in FaultsAfter(resp, CommitFaults, <<"none", "none">>) :
        \E params \in {IF IsNone(idinfo) THEN NoCall
                       ELSE Some(custom_auth_params(client_secret, idinfo[1].email,
                                                    request.google_id_token))},
           pool \in {IF IsNone(resp) THEN idp
                     ELSE PoolAfterCustomAuth(idp, idinfo[1].email, resp[1])},
           out \in {backend_google_auth(idinfo, resp, fault[1], fault[2], users, profiles)} :
              /\ pool # idp => Cardinality(idp) < MaxIdentities
              /\ idp' = pool
              /\ users' = out.users
              /\ profiles' = out.profiles
              /\ last' = Handled("google", request, params, resp, fault, out)
    /\ UNCHANGED <<inflight, app, client_secret, repo_users, now, registered>>

BackendRefreshToken ==
    /\ app = "backend"
    /\ last = Idle
    /\ \E request \in RefreshBodies(idp) :
        \E resp \in initiate_auth_refresh(idp, request.refresh_token) :
           \E out \in {backend_refresh_token(request, resp, users, profiles)} :
           /\ users' = out.users
           /\ profiles' = out.profiles
           /\ last' = Handled("refresh", request,
                             Some(refresh_auth_params(client_secret, request.refresh_token)),
                             Some(resp), << >>, out)
    /\ UNCHANGED <<inflight, app, client_secret, idp, repo_users, now, registered>>


(* PUT /onboarding without credentials the Token Verifier accepts: no
   Authorization header (HTTPBearer answers 403 or, in later FastAPI
   releases, 401), or a token get_current_user rejects *)
OnboardingUnauthenticated ==
    /\ app = "backend"
    /\ last = Idle
    /\ \E cred \in Credentials(idp), body \in OnboardingBodies :
        \/ /\ IsNone(cred)
           /\ \E st \in {401, 403} :
                last' = [op |-> "onboarding", request |-> Some(body), status |-> st,
                         body |-> Some([detail |-> <<"Not authenticated">>]),
                         sent |-> NoCall, provider |-> NoCall, faults |-> << >>]
        \/ /\ ~IsNone(cred)
           /\ \E resp \in get_user(idp, cred[1]) :
                /\ ~get_current_user(resp).ok
                /\ last' = [op |-> "onboarding", request |-> Some(body),
                            status |-> get_current_user(resp).status,
                            body |-> Some([detail |-> get_current_user(resp).detail]),
                            sent |-> Some(get_user_params(cred[1])),
                            provider |-> Some(resp), faults |-> << >>]
    /\ UNCHANGED <<inflight, app, client_secret, idp, users, profiles, repo_users, now, registered>>

(* an authenticated PUT /onboarding whose body fails validation *)
OnboardingRejected ==
    /\ app = "backend"
    /\ last = Idle
    /\ \E cred \in Credentials(idp) \ {None}, body \in OnboardingBodies \cup BoundsProbes :
        \E resp \in get_user(idp, cred[1]) :
           /\ get_current_user(resp).ok
           /\ ~UserProfileUpdateRequest(body)
           /\ last' = [Rejected("onboarding", body)
                          EXCEPT !.sent = Some(get_user_params(cred[1])),
                                 !.provider = Some(resp)]
    /\ UNCHANGED <<inflight, app, client_secret, idp, users, profiles, repo_users, now, registered>>

CompleteOnboarding ==
    /\ app = "backend"
    /\ last = Idle
    /\ \E cred \in Credentials(idp) \ {None}, body \in OnboardingBodies \cup BoundsProbes :
        \E resp \in get_user(idp, cred[1]), fault \in CommitFaults :
           /\ get_current_user(resp).ok
           /\ UserProfileUpdateRequest(body)
           /\ \E out \in {complete_onboarding(body, get_current_user(resp).user_info,
                                              fault[1], fault[2], users, profiles)} :
              /\ users' = out.users
              /\ profiles' = out.profiles
              /\ last' = Handled("onboarding", body, Some(get_user_params(cred[1])),
                              Some(resp), fault, out)
    /\ UNCHANGED <<inflight, app, client_secret, idp, repo_users, now, registered>>

SrcRegister ==
    /\ app = "src"
    /\ last = Idle
    /\ \E body \in RegistrationBodies :
        /\ ~IsNone(UserRegistrationRequest(body))
        /\ \E request \in {UserRegistrationRequest(body)[1]} :
           \E params \in {sign_up_params(client_secret, request.email, request.password,
                                        request.username, request.first_name,
                                        request.last_name)} :
           \E resp \in sign_up(idp, params.Username) :
           \E fault \in FaultsAfter(Some(resp), DbFaults, "none") :
              /\ resp.kind = "ok" => Cardinality(idp) < MaxIdentities
              /\ \E out \in {src_register(request, resp, fault, repo_users)} :
                 /\ idp' = PoolAfterSignUp(idp, params.Username, params.Password, resp)
                 /\ repo_users' = out.rows
                 /\ last' = Handled("register", body, Some(params), Some(resp), <<fault>>, out)
                 /\ registered' = IF out.status \in {200, 201}
                                  THEN registered \cup {request.email} ELSE registered
    /\ UNCHANGED <<inflight, app, client_secret, users, profiles, now>>

(* datetime.utcnow() is read by update_last_login; the clock moves on
   between requests until the model's horizon *)
SrcLogin ==
    /\ app = "src"
    /\ last = Idle
    /\ \E request \in LoginBodies :
        \E resp \in initiate_auth_password(idp, request.email, request.password) :
        \E fault \in FaultsAfter(Some(resp), DbFaults, "none") :
        \E params \in {password_auth_params(client_secret, request.email, request.password)},
           out \in {src_login(request, resp, fault, repo_users, now)} :
           /\ repo_users' = out.rows
           /\ now' = IF out.rows # repo_users /\ now < MaxTime THEN now + 1 ELSE now
           /\ last' = Handled("login", request, Some(params), Some(resp), <<fault>>, out)
    /\ UNCHANGED <<inflight, app, client_secret, idp, users, profiles, registered>>

SrcRefreshToken ==
    /\ app = "src"
    /\ last = Idle
    /\ \E request \in RefreshBodies(idp) :
        \E resp \in initiate_auth_refresh(idp, request.refresh_token) :
           \E out \in {src_refresh_token(request, resp, repo_users)} :
           /\ repo_users' = out.rows
           /\ last' = Handled("refresh", request,
                             Some(refresh_auth_params(client_secret, request.refresh_token)),
                             Some(resp), << >>, out)
    /\ UNCHANGED <<inflight, app, client_secret, idp, users, profiles, now, registered>>

(* the response leaves the server: the request is over *)
Respond ==
    /\ last # Idle
    /\ last' = Idle
    /\ UNCHANGED <<inflight, app, client_secret, idp, users, profiles, repo_users, now, registered>>

Next ==
    \/ RegisterRejected
    \/ BackendRegister
    \/ BackendLogin
    \/ BackendGoogleAuth
    \/ BackendRefreshToken
    \/ OnboardingUnauthenticated
    \/ OnboardingRejected
    \/ CompleteOnboarding
    \/ SrcRegister
    \/ SrcLogin
    \/ SrcRefreshToken
    \/ Respond

Spec == Init /\ [][Next]_vars

(* COGNITO_CLIENT_SECRET is optional configuration: the deployments with
   and without a client secret *)
InitSecretOptional ==
    /\ app \in {"backend", "src"}
    /\ client_secret \in {None, Some(ClientSecret)}
    /\ idp = {}
    /\ users = {}
    /\ profiles = {}
    /\ repo_users = {}
    /\ now = 1
    /\ registered = {}
    /\ inflight = NoRequests
    /\ last = Idle

SpecSecretOptional == InitSecretOptional /\ [][Next]_vars

----------------------------------------------------------------------------
(* Concurrent requests.  Each request is served by a coroutine with its    *)
(* own database session; the steps of a handler are its awaits: the        *)
(* provider call, each select and each commit.  The database checks the    *)
(* unique constraints of a table when the INSERT is flushed, atomically.   *)

ConcurrentRegistrationBodies ==
    {[email |-> e, password |-> PasswordValid, username |-> <<"b", "o", "b">>,
      first_name |-> Some(<<"A", "l">>), last_name |-> None] : e \in {EmailBob, EmailAb}}

ConcurrentGoogleBodies == [google_id_token : {GoogleTokenBob, GoogleTokenAb}]

ConcurrentOnboardingBodies ==
    {[f \in {"age"} |-> Some(25)],
     [f \in {"age", "goals"} |->
         IF f = "age" THEN Some(30) ELSE Some(<< <<"l", "o", "s", "e">> >>)]}

(* a request at position pc of its handler; row: the User the handler
   holds, loaded: the UserProfile its session holds, created: it inserted
   a User row *)
Running(op, request, pc, sub, row, loaded, created) ==
    [op |-> op, pc |-> pc, request |-> request, sub |-> sub, row |-> row,
     loaded |-> loaded, status |-> 0, created |-> created]

Done(r, status) == [r EXCEPT !.pc = "done", !.status = status, !.loaded = None]

At(p, op, pc) == inflight[p].op = op /\ inflight[p].pc = pc

(* a request is taken by the first free slot: the slots are interchangeable *)
Free(p) == inflight[p] = NoRequest /\ \A q \in Requests : q < p => inflight[q] # NoRequest

(* the unique constraint of user_profiles.user_id *)
ProfileUniqueViolation(ps, row) == \E q \in ps : q.user_id = row.user_id

(* the attributes setattr changed on the loaded instance: the columns of
   the UPDATE the commit flushes *)
ChangedColumns(loaded, target) == {f \in DOMAIN loaded : loaded[f] # target[f]}

(* register, up to the answer of cognito_service.register_user *)
RegisterCall(p) ==
    /\ Free(p)
    /\ \E body \in ConcurrentRegistrationBodies :
       \E request \in {UserRegistrationRequest(body)[1]} :
       \E resp \in sign_up(idp, request.email) :
       \E r \in {IF app = "backend" THEN backend_register_user(resp)
                  ELSE src_register_user(resp)} :
          /\ resp.kind = "ok" => Cardinality(idp) < MaxIdentities
          /\ idp' = PoolAfterSignUp(idp, request.email, request.password, resp)
          /\ inflight' = [inflight EXCEPT ![p] =
                IF ~r.success
                THEN Done(Running("register", request, "call", None, None, None, FALSE),
                          IF app = "backend" THEN 400
                          ELSE RegisterErrorStatus(r.result.error))
                ELSE Running("register", request,
                             IF app = "backend" THEN "add_user" ELSE "create_user",
                             Some(r.result.user_sub),
                             IF app = "backend"
                             THEN Some(User(NewId(users, request.email), r.result.user_sub,
                                            request.email, request.username,
                                            request.first_name, request.last_name))
                             ELSE None,
                             None, FALSE)]
    /\ UNCHANGED <<app, client_secret, users, profiles, repo_users, now, registered, last>>

(* google_auth, up to the answer of authenticate_with_google *)
GoogleCall(p) ==
    /\ app = "backend"
    /\ Free(p)
    /\ \E request \in ConcurrentGoogleBodies :
       \E idinfo \in {verify_oauth2_token(request.google_id_token)} :
       \E resp \in initiate_auth_custom(idp, idinfo[1].email) :
       \E r \in {backend_authenticate_with_google(idinfo, Some(resp))},
          pool \in {PoolAfterCustomAuth(idp, idinfo[1].email, resp)} :
          /\ pool # idp => Cardinality(idp) < MaxIdentities
          /\ idp' = pool
          /\ inflight' = [inflight EXCEPT ![p] =
                IF ~r.success
                THEN Done(Running("google", request, "call", None, None, None, FALSE), 401)
                ELSE Running("google", request, "select_user", Some(r.result.user_sub),
                             Some(User(NewId(users, r.result.email), r.result.user_sub,
                                       r.result.email, localPart(r.result.email),
                                       r.result.given_name, r.result.family_name)),
                             None, FALSE)]
    /\ UNCHANGED <<app, client_secret, users, profiles, repo_users, now, registered, last>>

(* google_auth: select(User).where(User.email == email) *)
GoogleSelectUser(p) ==
    /\ At(p, "google", "select_user")
    /\ inflight' = [inflight EXCEPT ![p] =
          IF UserByEmail(users, inflight[p].row[1].email) # {}
          THEN Done(inflight[p], 200)
          ELSE [inflight[p] EXCEPT !.pc = "add_user"]]
    /\ UNCHANGED <<app, client_secret, idp, users, profiles, repo_users, now, registered, last>>

(* register and google_auth: session.add(user); commit; the handler's
   except Exception answers a unique violation with 500 *)
AddUser(p) ==
    /\ inflight[p].op \in {"register", "google"}
    /\ inflight[p].pc = "add_user"
    /\ IF UserUniqueViolation(users, inflight[p].row[1])
       THEN /\ inflight' = [inflight EXCEPT ![p] = Done(inflight[p], 500)]
            /\ users' = users
       ELSE /\ inflight' = [inflight EXCEPT ![p] =
                   [inflight[p] EXCEPT !.pc = "add_profile", !.created = TRUE]]
            /\ users' = users \cup {inflight[p].row[1]}
    /\ UNCHANGED <<app, client_secret, idp, profiles, repo_users, now, registered, last>>

(* register and google_auth: session.add(profile); commit, which the
   database may fail *)
AddProfile(p) ==
    /\ inflight[p].op \in {"register", "google"}
    /\ inflight[p].pc = "add_profile"
    /\ \E fault \in {"none", "exception"} :
       \E profile \in {UserProfile(inflight[p].row[1].id)} :
          IF fault # "none" \/ ProfileUniqueViolation(profiles, profile)
          THEN /\ inflight' = [inflight EXCEPT ![p] = Done(inflight[p], 500)]
               /\ profiles' = profiles
          ELSE /\ inflight' = [inflight EXCEPT ![p] = Done(inflight[p], 200)]
               /\ profiles' = profiles \cup {profile}
    /\ UNCHANGED <<app, client_secret, idp, users, repo_users, now, registered, last>>

(* src register: user_repository.create_user, one session and one commit *)
CreateUser(p) ==
    /\ app = "src"
    /\ At(p, "register", "create_user")
    /\ \E request \in {inflight[p].request} :
       \E out \in {create_user(inflight[p].sub[1], request.email, request.username,
                                request.first_name, request.last_name,
                                [confirmed |-> FALSE], "none", repo_users)} :
          /\ repo_users' = out.rows
          /\ inflight' = [inflight EXCEPT ![p] =
                Done([inflight[p] EXCEPT !.created = "error" \notin DOMAIN out.result], 201)]
    /\ UNCHANGED <<app, client_secret, idp, users, profiles, now, registered, last>>

(* complete_onboarding, up to its select: the dependencies (a token the
   Token Verifier accepts, a body that validates), which read no table,
   then select(User) with selectinload(User.profile) *)
OnboardingSelectUser(p) ==
    /\ app = "backend"
    /\ Free(p)
    /\ \E cred \in Credentials(idp) \ {None}, body \in ConcurrentOnboardingBodies :
       \E resp \in get_user(idp, cred[1]) :
          /\ get_current_user(resp).ok
          /\ UserProfileUpdateRequest(body)
          /\ \E sub \in {get_current_user(resp).user_info.sub} :
             \E found \in {{u \in users : u.cognito_id = sub}} :
             \E r \in {Running("onboarding", body, "select_user", Some(sub),
                               None, None, FALSE)} :
                inflight' = [inflight EXCEPT ![p] =
                   IF found = {}
                   THEN Done(r, 404)
                   ELSE LET user == CHOOSE u \in found : TRUE
                            existing == {q \in profiles : q.user_id = user.id} IN
                        IF existing = {}
                        THEN [r EXCEPT !.pc = "add_profile", !.row = Some(user)]
                        ELSE [r EXCEPT !.pc = "update", !.row = Some(user),
                                       !.loaded = Some(CHOOSE q \in existing : TRUE)]]
    /\ UNCHANGED <<app, client_secret, idp, users, profiles, repo_users, now, registered, last>>

(* complete_onboarding: the profile created lazily; nothing catches the
   exception of its commit *)
OnboardingAddProfile(p) ==
    /\ At(p, "onboarding", "add_profile")
    /\ \E profile \in {UserProfile(inflight[p].row[1].id)} :
          IF ProfileUniqueViolation(profiles, profile)
          THEN /\ inflight' = [inflight EXCEPT ![p] = Done(inflight[p], 500)]
               /\ profiles' = profiles
          ELSE /\ inflight' = [inflight EXCEPT ![p] =
                      [inflight[p] EXCEPT !.pc = "update", !.loaded = Some(profile)]]
               /\ profiles' = profiles \cup {profile}
    /\ UNCHANGED <<app, client_secret, idp, users, repo_users, now, registered, last>>

(* complete_onboarding: setattr on the loaded profile, then the commit
   that writes the changed columns to the row *)
OnboardingUpdate(p) ==
    /\ At(p, "onboarding", "update")
    /\ \E loaded \in {inflight[p].loaded[1]} :
       \E target \in {[ApplyUpdate(loaded, inflight[p].request)
                          EXCEPT !.has_completed_onboarding = TRUE]} :
       \E row \in {q \in profiles : q.user_id = loaded.user_id} :
          /\ profiles' = (profiles \ {row}) \cup
                {[f \in DOMAIN row |->
                    IF f \in ChangedColumns(loaded, target) THEN target[f] ELSE row[f]]}
          /\ inflight' = [inflight EXCEPT ![p] = Done(inflight[p], 200)]
    /\ UNCHANGED <<app, client_secret, idp, users, repo_users, now, registered, last>>

(* the response leaves the server *)
ConcurrentRespond(p) ==
    /\ inflight[p].op # "idle"
    /\ inflight[p].pc = "done"
    /\ inflight' = [inflight EXCEPT ![p] = NoRequest]
    /\ UNCHANGED <<app, client_secret, idp, users, profiles, repo_users, now, registered, last>>

(* concurrent registrations and federated logins *)
NextConcurrent ==
    \/ \E p \in Requests : RegisterCall(p)
    \/ \E p \in Requests : GoogleCall(p)
    \/ \E p \in Requests : GoogleSelectUser(p)
    \/ \E p \in Requests : AddUser(p)
    \/ \E p \in Requests : AddProfile(p)
    \/ \E p \in Requests : CreateUser(p)
    \/ \E p \in Requests : ConcurrentRespond(p)

SpecConcurrent == Init /\ [][NextConcurrent]_vars

(* the backend's registrations and concurrent onboarding calls *)
InitOnboarding == Init /\ app = "backend"

NextOnboarding ==
    \/ \E p \in Requests : RegisterCall(p)
    \/ \E p \in Requests : AddUser(p)
    \/ \E p \in Requests : AddProfile(p)
    \/ \E p \in Requests : OnboardingSelectUser(p)
    \/ \E p \in Requests : OnboardingAddProfile(p)
    \/ \E p \in Requests : OnboardingUpdate(p)
    \/ \E p \in Requests : ConcurrentRespond(p)

SpecOnboarding == InitOnboarding /\ [][NextOnboarding]_vars

----------------------------------------------------------------------------
(* Properties *)

(* the gateway call of the request in progress returned success *)
GatewaySucceeded(l) ==
    /\ ~IsNone(l.provider)
    /\ l.provider[1].kind = "ok"
    /\ l.op \in {"login", "google", "refresh"} => ~IsNone(l.provider[1].AuthenticationResult)

StoreChanged == users' # users \/ profiles' # profiles \/ repo_users' # repo_users

(* C1: the Identity Gateway is called first and the User Directory is
   written only after it returned success: every local User row is the row
   of an identity the provider has confirmed (the backend stores the email
   as sent, the repository lower-cased), and a request whose provider call
   was not made or did not succeed leaves the local store as it was. *)
C1_GatewayBeforeDirectory ==
    [][/\ \A u \in users' : HasIdentity(idp', u.email)
       /\ \A u \in repo_users' : \E i \in idp' : lower(i.Username) = u.email
       /\ StoreChanged => GatewaySucceeded(last')]_vars

(* a federated login has just created the User row of a confirmed identity,
   and a registration the provider refused has written nothing *)
C1_Witness ==
    /\ last.op = "register"
    /\ last.status = 400
    /\ ~GatewaySucceeded(last)
    /\ \E u \in users : u.cognito_id = <<"google", <<"1">>>> /\ HasIdentity(idp, u.email)
    /\ ~\E u \in users : u.email = last.request[1].email

(* the provider's answer to the request in progress is the ClientError code *)
ProviderRefused(l, code) ==
    /\ ~IsNone(l.provider)
    /\ l.provider[1].kind = "client_error"
    /\ l.provider[1].Code = code

(* the local User rows of email e, as each generation stores it *)
RowsOf(e) ==
    IF app = "backend" THEN {u \in users : u.email = e}
    ELSE {u \in repo_users : u.email = lower(e)}

(* the User row of the identity the provider registered under e *)
RegisteredRows(e) == {u \in RowsOf(e) : u.cognito_id = <<"cognito", e>>}

(* the registration in progress has materialized the identity locally *)
Materialized ==
    IF app = "backend"
    THEN \E u \in users :
            /\ u.cognito_id = last.provider[1].UserSub
            /\ \E q \in profiles : q.user_id = u.id
    ELSE \E u \in repo_users : u.cognito_id = last.provider[1].UserSub

(* C2: when the provider's register call succeeded and the local
   User/UserProfile write failed, the registration handler still answers
   with its success response (200 or 201), never 4xx/5xx. *)
C2_PartialFailureReturnsSuccess ==
    (last.op = "register" /\ last.status # 422 /\ GatewaySucceeded(last) /\ ~Materialized)
        => last.status \in {200, 201}

(* the backend's commit has failed after the provider registered the
   identity, and the caller has been answered 500 *)
C2_Witness ==
    /\ app = "backend"
    /\ last.op = "register"
    /\ GatewaySucceeded(last)
    /\ ~Materialized
    /\ last.status = 500

(* C3: a second registration of an email whose registration was answered
   with success (and wrote its row) is answered 409 with the domain code
   UserExists; the store still holds exactly one User row for the email and
   is unchanged. *)
C3_DuplicateRegistrationConflict ==
    [][(/\ last'.op = "register"
        /\ ProviderRefused(last', "UsernameExistsException")
        /\ last'.request[1].email \in registered
        /\ RegisteredRows(last'.request[1].email) # {})
          => /\ last'.status = 409
             /\ last'.body[1].detail.error = "USER_EXISTS"
             /\ Cardinality(RowsOf(last'.request[1].email)) = 1
             /\ ~StoreChanged]_vars

(* the backend has answered the second registration of a registered email
   with 400 and the provider's message *)
C3_Witness ==
    /\ app = "backend"
    /\ last.op = "register"
    /\ ProviderRefused(last, "UsernameExistsException")
    /\ last.request[1].email \in registered
    /\ RegisteredRows(last.request[1].email) # {}
    /\ last.status = 400
    /\ last.body[1].detail = last.provider[1].Message

(* C4: once registration has been answered with success, a login with the
   same credentials which the provider accepts, the database being up,
   answers 200 with the provider's access, id and refresh tokens. *)
C4_RegisterThenLogin ==
    (/\ last.op = "login"
     /\ GatewaySucceeded(last)
     /\ last.faults = <<"none">>
     /\ last.request[1].email \in registered)
        => /\ last.status = 200
           /\ last.body[1].access_token = last.provider[1].AuthenticationResult[1].AccessToken
           /\ last.body[1].id_token = last.provider[1].AuthenticationResult[1].IdToken
           /\ last.body[1].refresh_token = last.provider[1].AuthenticationResult[1].RefreshToken

(* the backend has answered 500 to the login of a registered user whose
   credentials the provider accepted, the database being up *)
C4_Witness ==
    /\ app = "backend"
    /\ last.op = "login"
    /\ GatewaySucceeded(last)
    /\ last.faults = <<"none">>
    /\ last.request[1].email \in registered
    /\ last.status = 500

(* C5: when the provider's authenticate answer carries a challenge, login
   answers 202 with the provider's challenge name and session, no token
   field, and leaves last_login (the whole store) untouched. *)
C5_LoginChallengeAccepted ==
    [][(/\ last'.op = "login"
        /\ ~IsNone(last'.provider)
        /\ last'.provider[1].kind = "ok"
        /\ Truthy(last'.provider[1].ChallengeName))
          => /\ last'.status = 202
             /\ last'.body[1].challenge = last'.provider[1].ChallengeName[1]
             /\ last'.body[1].session = last'.provider[1].Session
             /\ "access_token" \notin DOMAIN last'.body[1]
             /\ "id_token" \notin DOMAIN last'.body[1]
             /\ "refresh_token" \notin DOMAIN last'.body[1]
             /\ ~StoreChanged]_vars

(* the backend has answered a provider challenge with 401 *)
C5_Witness ==
    /\ app = "backend"
    /\ last.op = "login"
    /\ ~IsNone(last.provider)
    /\ last.provider[1].kind = "ok"
    /\ Truthy(last.provider[1].ChallengeName)
    /\ last.status = 401

(* C6: when the provider's authenticate call succeeded with a token bundle,
   login answers 200 with that bundle whatever the last_login update does
   (succeeds, database error, any other exception, no local row). *)
C6_LoginSurvivesBookkeeping ==
    (last.op = "login" /\ GatewaySucceeded(last))
        => /\ last.status = 200
           /\ last.body[1] = TokenDict(last.provider[1].AuthenticationResult[1])

(* update_last_login has raised an exception that is no SQLAlchemyError
   and the login the provider accepted has been answered 500 *)
C6_Witness ==
    /\ app = "src"
    /\ last.op = "login"
    /\ GatewaySucceeded(last)
    /\ last.faults = <<"exception">>
    /\ last.status = 500

(* the Google account's email of the federated login in progress *)
FederatedEmail(l) == verify_oauth2_token(l.request[1].google_id_token)[1].email

(* C7: a successful federated login for an email with no local User
   creates exactly one User row and exactly one UserProfile row for it; a
   successful federated login for an email that has a User creates no row
   and leaves every row as it was. *)
C7_FederatedMaterialization ==
    [][(last'.op = "google" /\ last'.status = 200)
          => IF UserByEmail(users, FederatedEmail(last')) = {}
             THEN /\ users \subseteq users'
                  /\ profiles \subseteq profiles'
                  /\ Cardinality(users' \ users) = 1
                  /\ Cardinality(profiles' \ profiles) = 1
                  /\ \A u \in users' \ users :
                        /\ u.email = FederatedEmail(last')
                        /\ \A q \in profiles' \ profiles : q.user_id = u.id
                        /\ Cardinality({q \in profiles' : q.user_id = u.id}) = 1
             ELSE users' = users /\ profiles' = profiles]_vars

(* both cases have happened: bob@x had no User and a federated login
   created its User and UserProfile; a.b@x, registered by password and
   onboarded, has then logged in through Google and nothing was added *)
C7_Witness ==
    /\ last.op = "google"
    /\ last.status = 200
    /\ FederatedEmail(last) = EmailAb
    /\ \E u \in users :
          /\ u.email = EmailBob
          /\ u.cognito_id = <<"google", <<"1">>>>
          /\ Cardinality({q \in profiles : q.user_id = u.id}) = 1
    /\ \E u \in users :
          /\ u.email = EmailAb
          /\ u.cognito_id = <<"cognito", EmailAb>>
          /\ \E q \in profiles : q.user_id = u.id /\ q.has_completed_onboarding
    /\ Cardinality(users) = 2
    /\ Cardinality(profiles) = 2

(* C8: a successful refresh answers with the refresh token of the request
   and with the access token, id token and expiry of the provider's answer,
   in both generations. *)
C8_RefreshRoundTrip ==
    (last.op = "refresh" /\ last.status = 200)
        => /\ last.body[1].refresh_token = last.request[1].refresh_token
           /\ last.body[1].access_token = last.provider[1].AuthenticationResult[1].AccessToken
           /\ last.body[1].id_token = last.provider[1].AuthenticationResult[1].IdToken
           /\ last.body[1].expires_in = last.provider[1].AuthenticationResult[1].ExpiresIn

(* a refresh has succeeded although the provider's answer carried another
   refresh token than the request *)
C8_Witness ==
    /\ last.op = "refresh"
    /\ last.status = 200
    /\ last.provider[1].AuthenticationResult[1].RefreshToken # last.request[1].refresh_token
    /\ last.body[1].refresh_token = RefreshTokenOf(<<"cognito", EmailBob>>)

(* C9: a refresh request, answered with success or not, leaves every User
   and UserProfile row, last_login included, as it was. *)
C9_RefreshFrame ==
    [][last'.op = "refresh" => ~StoreChanged]_vars

(* a refresh has succeeded while the store holds a User row *)
C9_Witness ==
    /\ last.op = "refresh"
    /\ last.status = 200
    /\ users \cup repo_users # {}

ProfileOf(ps, user_id) ==
    IF \E q \in ps : q.user_id = user_id
    THEN CHOOSE q \in ps : q.user_id = user_id
    ELSE UserProfile(user_id)

(* C10: a successful onboarding completion sets exactly the profile fields
   of the request body and has_completed_onboarding; every other profile
   field keeps the value it had (the defaults, for a profile created by the
   call), and no other row changes. *)
C10_OnboardingPartialUpdate ==
    [][(last'.op = "onboarding" /\ last'.status = 200)
          => LET body == last'.request[1]
                 uid == last'.body[1].id
                 old == ProfileOf(profiles, uid)
                 new == ProfileOf(profiles', uid) IN
             /\ \A f \in ProfileFields :
                   new[f] = IF f \in DOMAIN body THEN body[f] ELSE old[f]
             /\ new.has_completed_onboarding
             /\ Cardinality({q \in profiles' : q.user_id = uid}) = 1
             /\ {q \in profiles' : q.user_id # uid} = {q \in profiles : q.user_id # uid}
             /\ users' = users]_vars

(* {age: 25} has been applied to a profile whose goals and equipment were
   set by an earlier call, and they are still set *)
C10_Witness ==
    /\ last.op = "onboarding"
    /\ last.status = 200
    /\ DOMAIN last.request[1] = {"age"}
    /\ last.body[1].age = Some(25)
    /\ ~IsNone(last.body[1].goals)
    /\ ~IsNone(last.body[1].equipment)
    /\ \E q \in profiles : q.user_id = last.body[1].id /\ q.age = Some(25) /\ ~IsNone(q.goals)

(* C11: every successful onboarding completion leaves
   has_completed_onboarding true; applying the same request once more to
   the resulting store changes nothing and answers the same; and no step of
   any handler removes a completed profile or sets its flag back to false. *)
C11_CompletionFlag ==
    [][/\ (last'.op = "onboarding" /\ last'.status = 200)
            => LET again == complete_onboarding(last'.request[1],
                                get_current_user(last'.provider[1]).user_info,
                                "none", "none", users', profiles') IN
               /\ \E q \in profiles' : q.user_id = last'.body[1].id /\ q.has_completed_onboarding
               /\ last'.body[1].has_completed_onboarding
               /\ again.status = 200
               /\ again.profiles = profiles'
               /\ again.users = users'
               /\ again.body = last'.body[1]
       /\ \A q \in profiles : q.has_completed_onboarding
            => \E r \in profiles' : r.user_id = q.user_id /\ r.has_completed_onboarding]_vars

(* a profile that was already complete, its goals set by an earlier call,
   has been completed again with {age: null} *)
C11_Witness ==
    /\ last.op = "onboarding"
    /\ last.status = 200
    /\ DOMAIN last.request[1] = {"age"}
    /\ IsNone(last.request[1].age)
    /\ \E q \in profiles :
          /\ q.user_id = last.body[1].id
          /\ q.has_completed_onboarding
          /\ ~IsNone(q.goals)
          /\ IsNone(q.age)

(* the onboarding request in progress failed authentication: it carried no
   bearer token, or the Token Verifier rejected its token *)
Unauthenticated(l) ==
    /\ l.op = "onboarding"
    /\ IsNone(l.provider) \/ ~get_current_user(l.provider[1]).ok

(* C12: every onboarding request that fails authentication (no bearer
   token, or a token the provider rejects for whatever reason) gets one and
   the same response, the one get_current_user gives a rejected token, and
   the local store is left as it was. *)
C12_UniformRejection ==
    [][Unauthenticated(last')
          => /\ last'.status = get_current_user(BotoException).status
             /\ last'.body = Some([detail |-> get_current_user(BotoException).detail])
             /\ ~StoreChanged]_vars

(* a request without bearer token has been answered by HTTPBearer itself,
   with another body than the Token Verifier's rejection *)
C12_Witness ==
    /\ Unauthenticated(last)
    /\ IsNone(last.provider)
    /\ last.body[1].detail = <<"Not authenticated">>
    /\ last.body[1].detail # get_current_user(BotoException).detail

(* the Users whose cognito_id is the subject of the token the Token
   Verifier accepted for the request in progress *)
SubjectUsers(l, us) ==
    {u \in us : u.cognito_id = get_current_user(l.provider[1]).user_info.sub}

(* C13: an onboarding request changes the store only after the Token
   Verifier accepted its token; it changes no User, and every UserProfile it
   creates or modifies belongs to the User whose cognito_id is the token's
   subject; with no such User a valid request is answered 404 and the store
   is left as it was. *)
C13_OnboardingSubjectBound ==
    [][last'.op = "onboarding"
          => /\ users' = users
             /\ StoreChanged => ~Unauthenticated(last')
             /\ \A q \in (profiles' \ profiles) \cup (profiles \ profiles') :
                   \E u \in SubjectUsers(last', users) : q.user_id = u.id
             /\ (/\ ~Unauthenticated(last')
                 /\ UserProfileUpdateRequest(last'.request[1])
                 /\ SubjectUsers(last', users) = {})
                   => last'.status = 404 /\ ~StoreChanged]_vars

(* bob@x, registered by password, has completed onboarding; a.b@x, whose
   User a federated login created with Google's subject, has presented the
   pool's access token and been answered 404, its profile untouched *)
C13_Witness ==
    /\ last.op = "onboarding"
    /\ last.status = 404
    /\ ~Unauthenticated(last)
    /\ last.provider[1].Username = EmailAb
    /\ \E u \in users : u.email = EmailAb /\ u.cognito_id = <<"google", <<"2">>>>
                        /\ \E q \in profiles : q.user_id = u.id /\ ~q.has_completed_onboarding
    /\ \E u \in users : u.email = EmailBob /\ u.cognito_id = <<"cognito", EmailBob>>
                        /\ \E q \in profiles : q.user_id = u.id /\ q.has_completed_onboarding

(* the composite policy as the specification words it: at least 8
   characters, an uppercase letter, a lowercase letter, a digit and a symbol
   of the punctuation set *)
PolicyViolated(v) ==
    \/ Len(v) < 8
    \/ \A i \in 1..Len(v) : ~isupper(v[i])
    \/ \A i \in 1..Len(v) : ~islower(v[i])
    \/ \A i \in 1..Len(v) : ~isdigit(v[i])
    \/ \A i \in 1..Len(v) : v[i] \notin SpecialChars

(* the registration in progress was rejected before the handler ran: no
   provider call, pool and store as they were *)
RejectedBeforeNetwork ==
    /\ last'.status = 422
    /\ last'.provider = NoCall
    /\ idp' = idp
    /\ ~StoreChanged

(* the rest of the registration body validates *)
RestValid(body) == validate_email(body.email) /\ validate_username(body.username)

(* C14, as stated: a registration whose password violates the policy is
   rejected with no provider call and no store write, and a password meeting
   all five conditions passes validation. *)
C14_PasswordPolicy ==
    [][last'.op = "register"
          => /\ PolicyViolated(last'.request[1].password) => RejectedBeforeNetwork
             /\ (~PolicyViolated(last'.request[1].password) /\ RestValid(last'.request[1]))
                   => last'.status # 422]_vars

(* C14, amended: as C14, the accepted passwords being those that meet the
   five conditions and are at most 128 characters long; a longer one is
   rejected before the network as well. *)
C14_PasswordPolicyAmended ==
    [][last'.op = "register"
          => \E refused \in {\/ Len(last'.request[1].password) > PasswordMaxLength
                             \/ PolicyViolated(last'.request[1].password)} :
                /\ refused => RejectedBeforeNetwork
                /\ (~refused /\ last'.status = 422) => ~RestValid(last'.request[1])]_vars

(* "Valid1234", which lacks only the symbol, has been rejected with no
   provider call, after "Valid123!" registered the same email and username *)
C14_Witness ==
    /\ last.op = "register"
    /\ last.request[1].password = PasswordNoSymbol
    /\ last.status = 422
    /\ last.provider = NoCall
    /\ EmailBob \in registered
    /\ \E i \in idp : i.Username = EmailBob /\ i.Password = Some(PasswordValid)

(* a username with a character that is no letter, digit, '_' or '-', or
   made of '_' and '-' only *)
UsernameInvalid(v) ==
    \/ \E i \in 1..Len(v) : ~isalnumChar(v[i]) /\ v[i] \notin {"_", "-"}
    \/ \A i \in 1..Len(v) : v[i] \in {"_", "-"}

(* the User rows the step in progress has added *)
NewRows == (users' \ users) \cup (repo_users' \ repo_users)

(* C15: a registration whose username has a character other than letters,
   digits, '_' and '-', or only '_' and '-', is rejected; the username of an
   accepted registration reaches the provider (preferred_username) and the
   local row lower-cased. *)
C15_UsernameNormalized ==
    [][last'.op = "register"
          => /\ UsernameInvalid(last'.request[1].username) => RejectedBeforeNetwork
             /\ ~IsNone(last'.sent)
                   => last'.sent[1].UserAttributes.preferred_username
                         = Some(lower(last'.request[1].username))
             /\ \A u \in NewRows : u.username = lower(last'.request[1].username)]_vars

(* "Valid_User-1" has been registered: the provider was sent, and the row
   holds, "valid_user-1" *)
C15_Witness ==
    /\ last.op = "register"
    /\ last.status \in {200, 201}
    /\ last.request[1].username = UsernameMixed
    /\ last.sent[1].UserAttributes.preferred_username
          = Some(<<"v", "a", "l", "i", "d", "_", "u", "s", "e", "r", "-", "1">>)
    /\ \E u \in users \cup repo_users :
          u.username = <<"v", "a", "l", "i", "d", "_", "u", "s", "e", "r", "-", "1">>

(* the domain codes the gateway's operations enumerate *)
RegisterCodes ==
    {"USER_EXISTS", "INVALID_PASSWORD", "INVALID_PARAMETER", "REGISTRATION_FAILED",
     "INTERNAL_ERROR"}
AuthenticateCodes ==
    {"INVALID_CREDENTIALS", "USER_NOT_FOUND", "USER_NOT_CONFIRMED",
     "PASSWORD_RESET_REQUIRED", "AUTH_FAILED"}
RefreshCodes == {"INVALID_REFRESH_TOKEN", "REFRESH_FAILED"}
VerifyCodes == {"INVALID_TOKEN"}

DomainCodes(op) ==
    CASE op = "register" -> RegisterCodes
      [] op = "login" -> AuthenticateCodes
      [] op = "refresh" -> RefreshCodes
      [] OTHER -> VerifyCodes

(* what the gateway method of request l returned to its handler *)
GatewayResult(l) ==
    CASE l.op = "register" ->
           IF app = "backend" THEN backend_register_user(l.provider[1])
           ELSE src_register_user(l.provider[1])
      [] l.op = "login" ->
           IF app = "backend" THEN backend_authenticate_user(l.provider[1])
           ELSE src_authenticate_user(l.provider[1])
      [] l.op = "refresh" ->
           IF app = "backend"
           THEN backend_refresh_tokens(l.request[1].refresh_token, l.provider[1])
           ELSE src_refresh_tokens(l.provider[1])

(* the provider answered the request in progress with an error code *)
ProviderErrorCode(l) ==
    /\ l.op \in {"register", "login", "refresh"}
    /\ ~IsNone(l.provider)
    /\ l.provider[1].kind = "client_error"

(* C16: whenever the provider answers register, authenticate, refresh or
   verify with an error code, the error the gateway returns is one of the
   domain codes of that operation, never the provider's code *)
C16_ClosedErrorTaxonomy ==
    /\ ProviderErrorCode(last) =>
          /\ GatewayResult(last).result.error \in DomainCodes(last.op)
          /\ GatewayResult(last).result.error # last.provider[1].Code
    /\ app = "src" =>
          \A cred \in Credentials(idp) \ {None} : \A resp \in get_user(idp, cred[1]) :
              resp.kind = "client_error" =>
                  /\ src_get_user_info(resp).result.error \in DomainCodes("verify")
                  /\ src_get_user_info(resp).result.error # resp.Code

(* a registration the provider refused as a duplicate, whose gateway
   returned the provider's code *)
C16_Witness ==
    /\ app = "backend"
    /\ last.op = "register"
    /\ ProviderErrorCode(last)
    /\ last.provider[1].Code = "UsernameExistsException"
    /\ GatewayResult(last).result.error = "UsernameExistsException"

(* a response that carries a token bundle *)
TokenResponse(l) == l.op \in {"login", "google", "refresh"} /\ l.status = 200

(* C17: the access and id token of every login, federated login and
   refresh response are the values the provider returned for that request,
   and the refresh token is the provider's or the one the caller sent *)
C17_TokenPassThrough ==
    TokenResponse(last) =>
        /\ ~IsNone(last.provider)
        /\ last.provider[1].kind = "ok"
        /\ ~IsNone(last.provider[1].AuthenticationResult)
        /\ LET a == last.provider[1].AuthenticationResult[1]
               body == last.body[1] IN
           /\ body.access_token = a.AccessToken
           /\ body.id_token = a.IdToken
           /\ \/ body.refresh_token = a.RefreshToken
              \/ /\ last.op = "refresh"
                 /\ body.refresh_token = last.request[1].refresh_token

(* a password login answered with the provider's token bundle *)
C17_Witness ==
    /\ last.op = "login"
    /\ last.status = 200
    /\ last.body[1].access_token = last.provider[1].AuthenticationResult[1].AccessToken
    /\ last.body[1].refresh_token = last.provider[1].AuthenticationResult[1].RefreshToken

(* the request in progress sent a credential operation to the provider *)
CredentialOperation(l) ==
    l.op \in {"register", "login", "google", "refresh"} /\ ~IsNone(l.sent)

(* the provider username of the account the operation is about; a refresh
   token no account owns has none *)
AccountUsername(l) ==
    CASE l.op = "register" -> Some(l.sent[1].Username)
      [] l.op \in {"login", "google"} -> Some(l.sent[1].AuthParameters.USERNAME)
      [] l.op = "refresh" ->
           LET token == l.sent[1].AuthParameters.REFRESH_TOKEN
               owners == {i \in idp : RefreshTokenOf(i.sub) = token} IN
           IF owners = {} THEN None ELSE Some((CHOOSE i \in owners : TRUE).Username)

(* C18: with a client secret configured every credential operation sent to
   the provider carries the hash keyed with the secret over username +
   client id; without one, no operation carries a hash *)
C18_SecretHash ==
    CredentialOperation(last) =>
        IF Truthy(client_secret)
        THEN /\ ~IsNone(last.sent[1].SecretHash)
             /\ ~IsNone(AccountUsername(last)) =>
                   last.sent[1].SecretHash
                     = Some(Hmac(client_secret[1], AccountUsername(last)[1] \o ClientId))
        ELSE IsNone(last.sent[1].SecretHash)

(* a federated sign-in sent to the provider of a deployment with a client
   secret *)
C18_Witness ==
    /\ last.op = "google"
    /\ ~IsNone(last.sent)
    /\ Truthy(client_secret)
    /\ IsNone(last.sent[1].SecretHash)

(* the step is a registration of the src generation that called
   create_user *)
CreateUserCalled ==
    /\ app = "src"
    /\ last = Idle
    /\ last'.op = "register"
    /\ GatewaySucceeded(last')

(* what create_user returned in that step *)
CreateUserResult ==
    LET request == UserRegistrationRequest(last'.request[1])[1]
        r == src_register_user(last'.provider[1]) IN
    create_user(r.result.user_sub, request.email, request.username, request.first_name,
                request.last_name, [confirmed |-> r.result.user_confirmed],
                last'.faults[1], repo_users).result

(* C19: create_user either commits exactly one new row with the
   lower-cased email, the lower-cased username and the cognito_id and
   returns the row, or returns an error dict and leaves the rows as they
   were *)
C19_CreateUserAllOrNothing ==
    [][CreateUserCalled =>
        LET request == UserRegistrationRequest(last'.request[1])[1]
            sub == last'.provider[1].UserSub IN
        IF "error" \in DOMAIN CreateUserResult
        THEN repo_users' = repo_users
        ELSE /\ Cardinality(repo_users' \ repo_users) = 1
             /\ repo_users \subseteq repo_users'
             /\ \A u \in repo_users' \ repo_users :
                   /\ u.email = lower(request.email)
                   /\ u.username = lower(request.username)
                   /\ u.cognito_id = sub
                   /\ CreateUserResult.email = u.email
                   /\ CreateUserResult.cognito_id = sub]_vars

(* a registration with an upper-case email whose create_user committed
   the lower-cased row *)
C19_Witness ==
    /\ app = "src"
    /\ last.op = "register"
    /\ GatewaySucceeded(last)
    /\ last.faults = <<"none">>
    /\ \E u \in repo_users :
          /\ u.cognito_id = last.provider[1].UserSub
          /\ u.email = lower(UserRegistrationRequest(last.request[1])[1].email)
          /\ u.email # UserRegistrationRequest(last.request[1])[1].email

(* the unique columns of the row create_user builds for request l *)
NewUserKeys(l) ==
    LET request == UserRegistrationRequest(l.request[1])[1] IN
    [cognito_id |-> l.provider[1].UserSub, email |-> lower(request.email),
     username |-> lower(request.username)]

ConstraintCode(column) ==
    CASE column = "email" -> "EMAIL_EXISTS"
      [] column = "username" -> "USERNAME_EXISTS"
      [] column = "cognito_id" -> "COGNITO_ID_EXISTS"

(* C20: when create_user fails on the collision of one unique column, the
   code it returns names that column *)
C20_DistinctConstraintCodes ==
    [][(CreateUserCalled /\ last'.faults = <<"none">>) =>
        \A column \in {"email", "username", "cognito_id"} :
            Collisions(repo_users, NewUserKeys(last')) = {column} =>
                /\ "error" \in DOMAIN CreateUserResult
                /\ CreateUserResult.error = ConstraintCode(column)]_vars

(* a registration whose username alone another row holds, answered by
   create_user with EMAIL_EXISTS *)
C20_Witness ==
    /\ app = "src"
    /\ last.op = "register"
    /\ GatewaySucceeded(last)
    /\ last.faults = <<"none">>
    /\ Collisions(repo_users, NewUserKeys(last)) = {"username"}
    /\ LET request == UserRegistrationRequest(last.request[1])[1] IN
       create_user(last.provider[1].UserSub, request.email, request.username,
                   request.first_name, request.last_name, [confirmed |-> TRUE],
                   "none", repo_users).result
         = [error |-> "EMAIL_EXISTS"]

(* the body sets age, height_cm or weight_kg outside its range *)
OutOfRange(body) ==
    \/ ~InRange(body, "age", AgeMin, AgeMax)
    \/ ~InRange(body, "height_cm", HeightMin, HeightMax)
    \/ ~InRange(body, "weight_kg", WeightMin, WeightMax)

(* the numeric fields of a stored profile are unset or within range *)
StoredInRange(q) ==
    /\ IsNone(q.age) \/ (q.age[1] >= AgeMin /\ q.age[1] <= AgeMax)
    /\ IsNone(q.height_cm) \/ (q.height_cm[1] >= HeightMin /\ q.height_cm[1] <= HeightMax)
    /\ IsNone(q.weight_kg) \/ (q.weight_kg[1] >= WeightMin /\ q.weight_kg[1] <= WeightMax)

(* C21: an onboarding request with age, height_cm or weight_kg outside its
   range is rejected (422 once its token is accepted) and leaves every
   profile as it was; every stored age, height_cm and weight_kg is unset
   or within its range *)
C21_BoundedProfileFields ==
    /\ [](\A q \in profiles : StoredInRange(q))
    /\ [][(last'.op = "onboarding" /\ OutOfRange(last'.request[1]))
            => /\ last'.status # 200
               /\ GatewaySucceeded(last') => last'.status = 422
               /\ profiles' = profiles
               /\ users' = users]_vars

(* {age: 25, height_cm: 301} sent with an accepted token by a user whose
   profile exists with no age: rejected, the age still unset *)
C21_Witness ==
    /\ last.op = "onboarding"
    /\ last.status = 422
    /\ DOMAIN last.request[1] = {"age", "height_cm"}
    /\ GatewaySucceeded(last)
    /\ \E u \in users, q \in profiles :
          /\ u.cognito_id = get_current_user(last.provider[1]).user_info.sub
          /\ q.user_id = u.id
          /\ IsNone(q.age)
          /\ ~q.has_completed_onboarding

(* no two rows of a users table share the email, the username or the
   external id *)
UniqueUsers(us) ==
    \A u, v \in us :
        u # v => /\ u.email # v.email
                 /\ u.username # v.username
                 /\ u.cognito_id # v.cognito_id

(* the unique columns of the User a registration or federated login is
   about to insert or has inserted *)
RequestKeys(r) ==
    IF app = "backend"
    THEN [cognito_id |-> r.row[1].cognito_id, email |-> r.row[1].email,
          username |-> r.row[1].username]
    ELSE [cognito_id |-> r.sub[1], email |-> lower(r.request.email),
          username |-> lower(r.request.username)]

Collide(a, b) ==
    a.email = b.email \/ a.username = b.username \/ a.cognito_id = b.cognito_id

(* the request is past the insert of its User, or found the User and
   ended *)
PastInsert(r) ==
    /\ r.op \in {"register", "google"}
    /\ ~IsNone(r.sub)
    /\ r.pc \in {"add_profile", "done"}

(* C22: under every interleaving of registrations and federated logins no
   users table holds two rows with the same email, username or external
   id, and of two requests that collide on one of them at most one creates
   a row, the row that stands in the table *)
C22_FirstWriterWins ==
    /\ UniqueUsers(users)
    /\ UniqueUsers(repo_users)
    /\ \A p, q \in Requests :
          (/\ p # q
           /\ PastInsert(inflight[p])
           /\ PastInsert(inflight[q])
           /\ Collide(RequestKeys(inflight[p]), RequestKeys(inflight[q])))
          => /\ ~(inflight[p].created /\ inflight[q].created)
             /\ \E u \in users \cup repo_users :
                   \/ Collide(u, RequestKeys(inflight[p]))
                   \/ Collide(u, RequestKeys(inflight[q]))

(* two federated logins of the same email that both found no User: one
   created the row, the other was refused by the unique constraint *)
C22_Witness ==
    \E p, q \in Requests :
        /\ inflight[p].op = "google" /\ inflight[q].op = "google"
        /\ inflight[p].pc = "done" /\ inflight[q].pc = "done"
        /\ inflight[p].request = inflight[q].request
        /\ inflight[p].created /\ inflight[p].status = 200
        /\ ~inflight[q].created /\ inflight[q].status = 500
        /\ Cardinality(users) = 1

(* C23: every stored User.email is lower-cased, and the lookups by email
   of the backend handlers (login, google_auth) and of the repository find
   the same rows for an email and for its lower-cased form *)
C23_EmailCaseNormalized ==
    /\ \A u \in users \cup repo_users : u.email = lower(u.email)
    /\ \A e \in Emails :
          /\ UserByEmail(users, e) = UserByEmail(users, lower(e))
          /\ get_user_by_email(e, "none", repo_users)
                = get_user_by_email(lower(e), "none", repo_users)
          /\ delete_user(e, "none", repo_users) = delete_user(lower(e), "none", repo_users)
          /\ \A t \in 1..MaxTime :
                update_last_login(e, "none", repo_users, t)
                  = update_last_login(lower(e), "none", repo_users, t)

(* the backend holds the User registered as Bob@x, stored with that case,
   and a login as bob@x, accepted by the provider, was answered while no
   row matched its email *)
C23_Witness ==
    /\ app = "backend"
    /\ \E u \in users : u.email = EmailBobUpper
    /\ last.op = "login"
    /\ last.request[1].email = EmailBob
    /\ GatewaySucceeded(last)
    /\ UserByEmail(users, last.request[1].email) = {}

(* lower-case, and only letters, digits, '_' and '-' *)
UsernameWellFormed(v) ==
    /\ v = lower(v)
    /\ \A i \in 1..Len(v) : isalnumChar(v[i]) \/ v[i] \in {"_", "-"}

(* C24: every stored User.username is lower-case and consists only of
   letters, digits, '_' and '-', whichever flow created the row *)
C24_UsernameInvariant ==
    \A u \in users \cup repo_users : UsernameWellFormed(u.username)

(* the federated login of a.b@x has created its User, the username being
   the local part of the email *)
C24_Witness ==
    /\ last.op = "google"
    /\ last.status = 200
    /\ \E u \in users :
          /\ u.email = EmailAb
          /\ u.username = localPart(EmailAb)
          /\ ~UsernameWellFormed(u.username)

(* the stored external id of row u is the subject the pool issued to the
   identity of its email, the one the Token Verifier returns *)
SubjectStored(u) ==
    \E i \in idp : i.sub = u.cognito_id /\ lower(i.Username) = lower(u.email)

(* the onboarding request in progress carried an access token the pool
   issued to an identity whose User row exists *)
TokenOfLocalUser(l, us) ==
    /\ l.op = "onboarding"
    /\ GatewaySucceeded(l)
    /\ \E u \in us : u.email = l.provider[1].Username

(* C25: the cognito_id of every User row is the provider's subject of that
   identity, so an onboarding call with an access token of an identity
   whose row exists is never answered 404; no step changes the cognito_id
   of a row *)
C25_ExternalIdIsSubject ==
    /\ [](\A u \in users \cup repo_users : SubjectStored(u))
    /\ [][/\ TokenOfLocalUser(last', users) => last'.status # 404
           /\ \A u \in users \cup repo_users : \A v \in users' \cup repo_users' :
                 v.id = u.id => v.cognito_id = u.cognito_id]_vars

(* the User the federated login of bob@x created holds Google's subject;
   the onboarding call with the pool's access token of bob@x is answered
   404 *)
C25_Witness ==
    /\ TokenOfLocalUser(last, users)
    /\ last.status = 404
    /\ \E u \in users :
          /\ u.email = last.provider[1].Username
          /\ u.cognito_id # last.provider[1].UserAttributes.sub

(* C26: last_login of a User changes only in a login request that the
   provider answered with tokens and the handler with 200, and only for
   the User whose email matches the request *)
C26_LastLoginFrame ==
    [][\A u \in users \cup repo_users : \A v \in users' \cup repo_users' :
          (v.id = u.id /\ v.last_login # u.last_login)
             => /\ last'.op = "login"
                /\ GatewaySucceeded(last')
                /\ last'.status = 200
                /\ lower(u.email) = lower(last'.request[1].email)]_vars

(* a login has stamped its User while the row of another User, never
   logged in, stands beside it *)
C26_Witness ==
    /\ last.op = "login"
    /\ last.status = 200
    /\ \E u, v \in repo_users :
          /\ u.email = lower(last.request[1].email)
          /\ ~IsNone(u.last_login)
          /\ v.email # u.email
          /\ IsNone(v.last_login)

(* the provider holds the identity of email e and no User row does *)
MissingUser(e, us) ==
    /\ \E i \in idp : lower(i.Username) = lower(e)
    /\ ~\E u \in us : lower(u.email) = lower(e)

(* the emails of the identity the request in progress authenticated: a
   login answered 200 with the provider's tokens, an onboarding call whose
   access token the provider accepted *)
AuthenticatedIdentity(l) ==
    IF l.op = "login" /\ GatewaySucceeded(l) /\ l.status = 200
    THEN {l.request[1].email}
    ELSE IF l.op = "onboarding" /\ GatewaySucceeded(l)
    THEN {l.provider[1].Username}
    ELSE {}

(* C27: a successful login, or an onboarding call with a valid access
   token, of an identity the provider holds and the store does not, leaves
   the User row of that identity in the store *)
C27_SelfHealing ==
    [][\A e \in AuthenticatedIdentity(last') :
          MissingUser(e, users \cup repo_users)
             => \E u \in users' \cup repo_users' : lower(u.email) = lower(e)]_vars

(* the login of an identity whose registration reached the provider and
   not the store has been answered 200, and the store still has no row *)
C27_Witness ==
    /\ last.op = "login"
    /\ last.status = 200
    /\ GatewaySucceeded(last)
    /\ MissingUser(last.request[1].email, users \cup repo_users)

(* the onboarding call in slot p has found its User and has ended *)
OnboardingEnded(p) ==
    /\ inflight[p].op = "onboarding"
    /\ inflight[p].pc = "done"
    /\ ~IsNone(inflight[p].row)

(* C28: under any interleaving of onboarding calls no user has two
   UserProfile rows, and every call that found its User ends with 200 and
   with exactly one UserProfile row of that user in the store *)
C28_LazyProfileCreation ==
    /\ \A u \in users : Cardinality({q \in profiles : q.user_id = u.id}) <= 1
    /\ \A p \in Requests :
          OnboardingEnded(p) =>
             /\ inflight[p].status = 200
             /\ Cardinality({q \in profiles : q.user_id = inflight[p].row[1].id}) = 1

(* two onboarding calls of a User without profile: both selected no
   profile, one inserted it, the insert of the other violated the unique
   user_id and the call ended with 500 *)
C28_Witness ==
    \E p \in Requests :
       /\ OnboardingEnded(p)
       /\ inflight[p].status = 500
       /\ Cardinality({q \in profiles : q.user_id = inflight[p].row[1].id}) = 1

(* the UserProfile rows of User u *)
ProfilesOf(u, ps) == {q \in ps : q.user_id = u.id}

(* C29: between requests every User row the backend's registration or
   federated login created has exactly one UserProfile row *)
C29_UserWithProfile ==
    \A u \in users : Cardinality(ProfilesOf(u, profiles)) = 1

(* the registration answered 500 after its second commit failed: the
   User of the request is stored and has no UserProfile *)
C29_Witness ==
    /\ last.op = "register"
    /\ last.status = 500
    /\ GatewaySucceeded(last)
    /\ \E u \in users :
          /\ u.email = UserRegistrationRequest(last.request[1])[1].email
          /\ ProfilesOf(u, profiles) = {}

(* the federated login in progress succeeded at the provider for an email
   without User in us, and another User of us holds the username derived
   from the email's local part *)
DerivedUsernameTaken(l, us) ==
    /\ l.op = "google"
    /\ GatewaySucceeded(l)
    /\ UserByEmail(us, FederatedEmail(l)) = {}
    /\ \E u \in us : u.username = localPart(FederatedEmail(l))

(* C30: a federated login whose derived username another User holds is
   answered 200 with the provider's tokens, and neither a User nor a
   UserProfile is stored for the new email *)
C30_CollidingDerivedUsername ==
    [][DerivedUsernameTaken(last', users) =>
          /\ last'.status = 200
          /\ last'.body[1].access_token
                = last'.provider[1].AuthenticationResult[1].AccessToken
          /\ users' = users
          /\ profiles' = profiles]_vars

(* a.b@x holds the username "bob"; the federated login of bob@x, whose
   commits were not disturbed, has been answered 500 and has stored
   nothing *)
C30_Witness ==
    /\ DerivedUsernameTaken(last, users)
    /\ last.faults = <<"none", "none">>
    /\ last.status = 500
    /\ \A q \in profiles : \E u \in users : q.user_id = u.id

====
